---- MODULE Spec2Model ----
(***************************************************************************)
(* The synthesis pass of NetworkVpcStack (network-vpc-stack.ts) over a     *)
(* network configuration, with the SecureVpc / SecureRouteTable wrappers   *)
(* (secure-vpc.ts) it drives.                                              *)
(*                                                                         *)
(* The constructor is one sequential pass.  Every loop iteration of it is  *)
(* one action.  The configuration (props.networkConfig.vpcs) is the input: *)
(* it is held in the variable vpcs and is revealed item by item, at the    *)
(* moment an iterator of the constructor first reaches the item; an item   *)
(* that has been read is recorded in vpcs and every later read of the same *)
(* list sees the record.  A run that ends with pc = "done" has read the    *)
(* whole configuration, so vpcs is then the configuration of that run.     *)
(*                                                                         *)
(* A string built from a template is a sequence of its pieces; pascalCase  *)
(* capitalises each piece.  A construct reference (a CloudFormation Ref)   *)
(* is the position of the construct in the variable constructs.            *)
(***************************************************************************)
EXTENDS Integers, Sequences, FiniteSets, TLC

(* ------------------------------ bounds -------------------------------- *)
\* The pass reads at most MaxItems items of the configuration: VPC
\* definitions and, in the VPC definitions of this account and region, route
\* tables, route entries, subnets, NAT gateways, attachments and gateway
\* endpoints.
MaxItems == 5

(* ----------------------- the execution context ------------------------ *)
ThisAccount == "111"
ThisRegion == "us-east-1"

Regions == {"us-east-1", "eu-west-1"}
Accounts == {"Network", "Shared", "Audit"}
VpcAccounts == {"Network", "Shared"}

\* props.accountIds[props.accountsConfig.getEmail(account)]
AccountIdOf(account) ==
    CASE account = "Network" -> "111"
      [] account = "Shared" -> "222"
      [] account = "Audit" -> "333"

(* ------------------------------ names --------------------------------- *)
\* The VPC definition at position i is named VpcNames[i].
VpcNames == <<"prod", "test">>
RouteTableNames == {"pub", "priv"}
SubnetNames == {"web", "app"}
NatGatewayNames == {"egress", "backup"}
\* The attachment at position i of a VPC definition is named AttachmentNames[i].
AttachmentNames == <<"core", "spare">>
TransitGatewayNames == {"main", "Edge"}
RouteEntryNames == <<"one", "two", "three", "four">>

\* The first letter of a piece in upper case (change-case's pascalCaseTransform).
Capitalize(w) ==
    CASE w = "prod" -> "Prod" [] w = "test" -> "Test"
      [] w = "pub" -> "Pub" [] w = "priv" -> "Priv"
      [] w = "web" -> "Web" [] w = "app" -> "App"
      [] w = "egress" -> "Egress" [] w = "backup" -> "Backup"
      [] w = "core" -> "Core" [] w = "spare" -> "Spare"
      [] w = "main" -> "Main"
      [] w = "one" -> "One" [] w = "two" -> "Two"
      [] w = "three" -> "Three" [] w = "four" -> "Four"
      [] w = "s3" -> "S3" [] w = "dynamodb" -> "Dynamodb"
      [] OTHER -> w

\* pascalCase of a string given by its pieces.
pascalCase(s) == [i \in DOMAIN s |-> Capitalize(s[i])]

(* ------------------------------- maps --------------------------------- *)
EmptyMap == [k \in {} |-> 0]
MapHas(m, k) == k \in DOMAIN m
\* (mutant) a key that is present keeps its value
MapSetKeepFirst(m, k, v) ==
    [x \in (DOMAIN m) \cup {k} |-> IF x \in DOMAIN m THEN m[x] ELSE v]

MapSet(m, k, v) == [x \in (DOMAIN m) \cup {k} |-> IF x = k THEN v ELSE m[x]]

\* map.get(k): the value, or undefined
Undefined == 0
MapGet(m, k) == IF MapHas(m, k) THEN m[k] ELSE Undefined

\* list.indexOf(x) == -1
NotIn(list, x) == \A i \in DOMAIN list : list[i] # x
\* (mutant) the push without the indexOf check
PushAlways(list, x) == Append(list, x)

\* if (list.indexOf(x) == -1) list.push(x)
PushIfAbsent(list, x) == IF NotIn(list, x) THEN Append(list, x) ELSE list

(* --------------------- the configuration universe --------------------- *)
\* The VPC definitions the first loop reads at position i: of this account
\* and region, of another account, and of another region. The first loop
\* reads their account and region; internetGateway is read when the VPC is
\* created.
VpcHeaders(i) ==
    {h \in [name : {VpcNames[i]}, account : VpcAccounts, region : Regions,
            internetGateway : {FALSE}] :
        AccountIdOf(h.account) = ThisAccount \/ h.region = ThisRegion}

TransitGatewayRefs ==
    {[name |-> "main", account |-> "Network"], [name |-> "main", account |-> "Shared"],
     [name |-> "Edge", account |-> "Shared"], [name |-> "Edge", account |-> "Audit"]}

AttachmentSubnetLists == {<<>>, <<"web">>}

\* The attachments the first loop reads at position i: it reads their transit
\* gateway; the list of subnets is read by the attachment step.
AttachmentItems(i) ==
    [name : {AttachmentNames[i]}, transitGateway : TransitGatewayRefs,
     subnets : {<<>>}]

SubnetItems == [name : SubnetNames, routeTable : RouteTableNames]

NatGatewayItems == [name : NatGatewayNames, subnet : SubnetNames]

RouteTypeTargets ==
    ({"transitGateway"} \X TransitGatewayNames)
      \cup ({"natGateway"} \X NatGatewayNames)
      \cup {<<"internetGateway", "IGW">>}
      \cup ({"gatewayEndpoint"} \X {"s3", "dynamodb", "kinesis"})

GatewayEndpointItems == {"s3", "dynamodb", "kinesis"}

Destination == "0.0.0.0/0"

\* The lists of a VPC definition nothing has read yet.
NoContent ==
    [routeTables |-> <<>>, subnets |-> <<>>, natGateways |-> <<>>,
     transitGatewayAttachments |-> <<>>, gatewayEndpoints |-> <<>>]

\* What a VPC definition that the pass never opens holds: one of everything,
\* with every reference dangling.
DanglingContent ==
    [routeTables |->
        <<[name |-> "pub",
           routes |-> <<[name |-> "one", type |-> "internetGateway",
                         target |-> "IGW", destination |-> Destination],
                        [name |-> "two", type |-> "natGateway",
                         target |-> "backup", destination |-> Destination],
                        [name |-> "three", type |-> "gatewayEndpoint",
                         target |-> "s3", destination |-> Destination]>>]>>,
     subnets |-> <<[name |-> "web", routeTable |-> "priv"]>>,
     natGateways |-> <<[name |-> "egress", subnet |-> "app"]>>,
     transitGatewayAttachments |->
        <<[name |-> "core",
           transitGateway |-> [name |-> "Edge", account |-> "Shared"],
           subnets |-> <<"app">>]>>,
     gatewayEndpoints |-> <<"s3">>]

VpcItem(h, c) ==
    [name |-> h.name, account |-> h.account, region |-> h.region,
     internetGateway |-> h.internetGateway,
     routeTables |-> c.routeTables, subnets |-> c.subnets,
     natGateways |-> c.natGateways,
     transitGatewayAttachments |-> c.transitGatewayAttachments,
     gatewayEndpoints |-> c.gatewayEndpoints]

(* ------------------------------- state -------------------------------- *)
VARIABLES
    vpcs,                        \* props.networkConfig.vpcs, as read so far
    itemsRead,                   \* how many items of it the pass has read
    pc,                          \* the constructor's position
    vpcIdx,                      \* the VPC the second loop is at
    idx,                         \* the position of the running inner loop
    error,                       \* the message of the Error thrown, or <<>>
    constructs,                  \* every construct created, in creation order
    transitGatewayIds,           \* Map<string, string>
    transitGatewayAccountIds,    \* string[]
    entryIdx,                    \* the position of the route entry loop
    vpc,                         \* const vpc of the running iteration (a ref)
    routeTable,                  \* const routeTable of the route entry step
    routeTableMap,
    subnetMap,
    natGatewayMap,
    transitGatewayAttachments,
    s3EndpointRouteTables,
    dynamodbEndpointRouteTables

config == <<vpcs, itemsRead>>
control == <<pc, vpcIdx, idx, entryIdx, error>>
tgwState == <<transitGatewayIds, transitGatewayAccountIds>>
vpcLocals ==
    <<vpc, routeTable, routeTableMap, subnetMap, natGatewayMap, transitGatewayAttachments,
      s3EndpointRouteTables, dynamodbEndpointRouteTables>>
vars == <<vpcs, itemsRead, pc, vpcIdx, idx, entryIdx, error, constructs,
          transitGatewayIds, transitGatewayAccountIds, vpc, routeTable, routeTableMap, subnetMap, natGatewayMap,
          transitGatewayAttachments, s3EndpointRouteTables,
          dynamodbEndpointRouteTables>>

NoError == <<>>
\* The stack itself, as the scope of a construct and as the construct whose
\* id a parameter holds.
Stack == 0
NoTransitGatewayId == [source |-> "none"]

\* The ref the next construct gets.
NextRef(cs) == Len(cs) + 1

(* ------------------------- parameter store ---------------------------- *)
\* new ssm.StringParameter(this, id, {parameterName, stringValue})
StringParameter(id, parameterName, stringValue) ==
    [kind |-> "StringParameter", scope |-> Stack, id |-> id,
     parameterName |-> parameterName, stringValue |-> stringValue]

StackIdParameter ==
    StringParameter(<<"SsmParamStackId">>,
                    <<"accelerator", "NetworkVpcStack", "stack-id">>, Stack)

Init ==
    /\ vpcs = <<>>
    /\ itemsRead = 0
    /\ pc = "defaultVpc"
    /\ vpcIdx = 0
    /\ idx = 0
    /\ entryIdx = 0
    /\ error = NoError
    /\ constructs = <<StackIdParameter>>
    /\ transitGatewayIds = EmptyMap
    /\ transitGatewayAccountIds = <<>>
    /\ vpc = Undefined
    /\ routeTable = Undefined
    /\ routeTableMap = EmptyMap
    /\ subnetMap = EmptyMap
    /\ natGatewayMap = EmptyMap
    /\ transitGatewayAttachments = EmptyMap
    /\ s3EndpointRouteTables = <<>>
    /\ dynamodbEndpointRouteTables = <<>>

(* ------------------------- the default VPCs --------------------------- *)
\* new DeleteDefaultVpc(this, 'DeleteDefaultVpc')
DeleteDefaultVpc ==
    [kind |-> "DeleteDefaultVpc", scope |-> Stack, id |-> <<"DeleteDefaultVpc">>]

\* props.networkConfig.defaultVpc?.delete is set (lines 48-51).
AddDeleteDefaultVpc ==
    /\ pc = "defaultVpc"
    /\ constructs' = Append(constructs, DeleteDefaultVpc)
    /\ pc' = "transitGateways"
    /\ UNCHANGED <<config, vpcIdx, idx, entryIdx, error, tgwState, vpcLocals>>

\* props.networkConfig.defaultVpc?.delete is not set.
KeepDefaultVpc ==
    /\ pc = "defaultVpc"
    /\ pc' = "transitGateways"
    /\ UNCHANGED <<config, vpcIdx, idx, entryIdx, error, constructs, tgwState, vpcLocals>>

(* ---------------- the transit gateway resolution pass ----------------- *)
\* accountId === cdk.Stack.of(this).account && vpcItem.region == ...region
TransitGatewayPassFilter(vpcItem) ==
    AccountIdOf(vpcItem.account) = ThisAccount /\ vpcItem.region = ThisRegion

\* (mutant) the check of line 67 left out
AlreadyEnteredNever(ids, name) == FALSE

\* transitGatewayIds.has(attachment.transitGateway.name)
AlreadyEntered(ids, name) == MapHas(ids, name)

\* owningAccountId === cdk.Stack.of(this).account
OwnedByThisAccount(owningAccountId) == owningAccountId = ThisAccount

\* `/accelerator/network/transitGateways/${name}/id`
TransitGatewayParameterName(name) ==
    <<"accelerator", "network", "transitGateways", name, "id">>

\* (mutant) the name of the share not put into pascal case
ResourceShareNameAsWritten(name) == <<name, "TransitGatewayShare">>

\* pascalCase(`${name}TransitGatewayShare`)
ResourceShareName(name) == pascalCase(<<name, "TransitGatewayShare">>)

\* ssm.StringParameter.valueForStringParameter(this, parameterName)
ParameterValue(parameterName) ==
    [source |-> "parameter", parameterName |-> parameterName]

\* ResourceShareItem.fromLookup(...).resourceShareItemId
ResourceShareItemId(shareName, owningAccountId, itemType) ==
    [source |-> "resourceShareItem", resourceShareName |-> shareName,
     owningAccountId |-> owningAccountId, resourceShareItemType |-> itemType]

ParameterLookup(parameterName) ==
    [kind |-> "ParameterLookup", scope |-> Stack, id |-> <<>>,
     parameterName |-> parameterName]

ResourceShareLookup(name, owningAccountId) ==
    [kind |-> "ResourceShareLookup", scope |-> Stack,
     id |-> pascalCase(<<name, "TransitGatewayShare">>),
     resourceShareOwner |-> "OTHER-ACCOUNTS",
     resourceShareName |-> ResourceShareName(name),
     owningAccountId |-> owningAccountId]

ResourceShareItemLookup(name, share) ==
    [kind |-> "ResourceShareItemLookup", scope |-> Stack,
     id |-> pascalCase(<<name, "TransitGateway">>),
     resourceShare |-> share, resourceShareItemType |-> "ec2:TransitGateway"]

\* The first loop reaches the next VPC definition.
TransitGatewayPassVisitVpc ==
    /\ pc = "transitGateways"
    /\ Len(vpcs) < Len(VpcNames)
    /\ itemsRead < MaxItems
    /\ \E h \in VpcHeaders(Len(vpcs) + 1) :
          vpcs' = Append(vpcs,
                         VpcItem(h, IF TransitGatewayPassFilter(h)
                                    THEN NoContent ELSE DanglingContent))
    /\ itemsRead' = itemsRead + 1
    /\ UNCHANGED <<control, constructs, tgwState, vpcLocals>>

\* The attachment the inner loop of the first pass reads next, if any.
CanReadAttachment ==
    /\ pc = "transitGateways"
    /\ Len(vpcs) > 0
    /\ TransitGatewayPassFilter(vpcs[Len(vpcs)])
    /\ Len(vpcs[Len(vpcs)].transitGatewayAttachments) < Len(AttachmentNames)
    /\ itemsRead < MaxItems

WithAttachment(att) ==
    [vpcs EXCEPT ![Len(vpcs)].transitGatewayAttachments = Append(@, att)]

\* Keep looking if already entered (lines 67-70).
TransitGatewayAlreadyInDictionary ==
    /\ CanReadAttachment
    /\ \E att \in AttachmentItems(Len(vpcs[Len(vpcs)].transitGatewayAttachments) + 1) :
          /\ AlreadyEntered(transitGatewayIds, att.transitGateway.name)
          /\ vpcs' = WithAttachment(att)
    /\ itemsRead' = itemsRead + 1
    /\ UNCHANGED <<control, constructs, tgwState, vpcLocals>>

\* The owning account is this account (lines 77-85).
TransitGatewayFromParameter ==
    /\ CanReadAttachment
    /\ \E att \in AttachmentItems(Len(vpcs[Len(vpcs)].transitGatewayAttachments) + 1) :
          LET name == att.transitGateway.name
              owningAccountId == AccountIdOf(att.transitGateway.account)
          IN  /\ ~AlreadyEntered(transitGatewayIds, name)
              /\ OwnedByThisAccount(owningAccountId)
              /\ vpcs' = WithAttachment(att)
              /\ itemsRead' = itemsRead + 1
              /\ constructs' =
                    Append(constructs, ParameterLookup(TransitGatewayParameterName(name)))
              /\ transitGatewayIds' =
                    MapSet(transitGatewayIds, name,
                           ParameterValue(TransitGatewayParameterName(name)))
    /\ UNCHANGED <<control, transitGatewayAccountIds, vpcLocals>>

\* The owning account is another account (lines 87-120).
TransitGatewayFromResourceShare ==
    /\ CanReadAttachment
    /\ \E att \in AttachmentItems(Len(vpcs[Len(vpcs)].transitGatewayAttachments) + 1) :
          LET name == att.transitGateway.name
              owningAccountId == AccountIdOf(att.transitGateway.account)
              share == NextRef(constructs)
          IN  /\ ~AlreadyEntered(transitGatewayIds, name)
              /\ ~OwnedByThisAccount(owningAccountId)
              /\ vpcs' = WithAttachment(att)
              /\ itemsRead' = itemsRead + 1
              /\ transitGatewayAccountIds' =
                    PushIfAbsent(transitGatewayAccountIds, owningAccountId)
              /\ constructs' =
                    constructs \o <<ResourceShareLookup(name, owningAccountId),
                                    ResourceShareItemLookup(name, share)>>
              /\ transitGatewayIds' =
                    MapSet(transitGatewayIds, name,
                           ResourceShareItemId(ResourceShareName(name), owningAccountId,
                                               "ec2:TransitGateway"))
    /\ UNCHANGED <<control, vpcLocals>>

\* The first loop has run out of VPC definitions (line 123).
TransitGatewayPassDone ==
    /\ pc = "transitGateways"
    /\ pc' = "role"
    /\ UNCHANGED <<config, vpcIdx, idx, entryIdx, error, constructs, tgwState, vpcLocals>>

(* --------------------- the cross account role ------------------------- *)
\* transitGatewayAccountIds.length > 0
NeedsRole(accountIds) == Len(accountIds) > 0

\* principals.push(new iam.AccountPrincipal(accountId)) for each account
Principals(accountIds) == accountIds

Role(accountIds) ==
    [kind |-> "Role", scope |-> Stack,
     id |-> <<"DescribeTransitGatewaysAttachmentsRole">>,
     roleName |-> "AWSAccelerator-DescribeTransitGatewayAttachmentsRole",
     assumedBy |-> Principals(accountIds),
     effect |-> "ALLOW",
     actions |-> <<"ec2:DescribeTransitGatewayAttachments">>,
     resources |-> <<"*">>]

CreateCrossAccountRole ==
    /\ pc = "role"
    /\ NeedsRole(transitGatewayAccountIds)
    /\ constructs' = Append(constructs, Role(transitGatewayAccountIds))
    /\ pc' = "vpcs"
    /\ vpcIdx' = 1
    /\ UNCHANGED <<config, idx, entryIdx, error, tgwState, vpcLocals>>

NoCrossAccountRole ==
    /\ pc = "role"
    /\ ~NeedsRole(transitGatewayAccountIds)
    /\ pc' = "vpcs"
    /\ vpcIdx' = 1
    /\ UNCHANGED <<config, idx, entryIdx, error, constructs, tgwState, vpcLocals>>

(* ------------------------ reading the input --------------------------- *)
\* The item a loop at position i of a list reads: the recorded one, or, past
\* the recorded ones, any item of the universe while the budget lasts.
ItemsAt(list, i, universe) ==
    IF i <= Len(list) THEN {list[i]}
    ELSE IF itemsRead < MaxItems THEN universe ELSE {}

Recorded(list, i, item) == IF i <= Len(list) THEN list ELSE Append(list, item)

Counted(list, i) == IF i <= Len(list) THEN itemsRead ELSE itemsRead + 1

\* (mutant) the error noted and the loop gone on with its next item
ThrowAndGoOn(message) ==
    /\ error' = message
    /\ IF pc = "routes" /\ entryIdx >= 1
       THEN entryIdx' = entryIdx + 1 /\ idx' = idx
       ELSE idx' = idx + 1 /\ entryIdx' = entryIdx
    /\ UNCHANGED <<pc, vpcIdx, constructs, tgwState, vpcLocals>>

\* throw new Error(message): the constructor is left at once.
Throw(message) ==
    /\ error' = message
    /\ pc' = "failed"
    /\ UNCHANGED <<vpcIdx, idx, entryIdx, constructs, tgwState, vpcLocals>>

(* --------------------------- the VPC loop ----------------------------- *)
\* (mutant) the region left out of the condition of line 156
VpcPassFilterAccountOnly(vpcItem) == AccountIdOf(vpcItem.account) = ThisAccount

\* accountId === cdk.Stack.of(this).account && vpcItem.region == ...region
VpcPassFilter(vpcItem) ==
    AccountIdOf(vpcItem.account) = ThisAccount /\ vpcItem.region = ThisRegion

\* new SecureVpc(scope, id, props): the VPC, and with internetGateway the
\* gateway and its attachment, as children of the VPC.
\* (mutant) line 283 left out: the gateway is made, its identifier is not kept
SecureVpcGatewayNotExposed(ref, id, item, name, internetGateway) ==
    <<[kind |-> "Vpc", scope |-> Stack, id |-> id, vpcItem |-> item, name |-> name,
       internetGatewayId |-> Undefined]>>
    \o (IF internetGateway
        THEN <<[kind |-> "InternetGateway", scope |-> ref,
                id |-> <<"InternetGateway">>, vpcItem |-> item],
               [kind |-> "VPCGatewayAttachment", scope |-> ref,
                id |-> <<"InternetGatewayAttachment">>, vpcItem |-> item,
                internetGatewayId |-> ref + 1, vpcId |-> ref]>>
        ELSE <<>>)

SecureVpc(ref, id, item, name, internetGateway) ==
    <<[kind |-> "Vpc", scope |-> Stack, id |-> id, vpcItem |-> item, name |-> name,
       internetGatewayId |-> IF internetGateway THEN ref + 1 ELSE Undefined]>>
    \o (IF internetGateway
        THEN <<[kind |-> "InternetGateway", scope |-> ref,
                id |-> <<"InternetGateway">>, vpcItem |-> item],
               [kind |-> "VPCGatewayAttachment", scope |-> ref,
                id |-> <<"InternetGatewayAttachment">>, vpcItem |-> item,
                internetGatewayId |-> ref + 1, vpcId |-> ref]>>
        ELSE <<>>)

VpcParameterName(vpcName) == <<"accelerator", "network", "vpc", vpcName, "id">>

\* (mutant) the resource name put before the resource kind
ResourceParameterNameSwapped(vpcName, resourceKind, resourceName) ==
    <<"accelerator", "network", "vpc", vpcName, resourceName, resourceKind, "id">>

ResourceParameterName(vpcName, resourceKind, resourceName) ==
    <<"accelerator", "network", "vpc", vpcName, resourceKind, resourceName, "id">>

\* The second loop skips a VPC definition of another account or region.
SkipVpc ==
    /\ pc = "vpcs"
    /\ vpcIdx <= Len(vpcs)
    /\ ~VpcPassFilter(vpcs[vpcIdx])
    /\ vpcIdx' = vpcIdx + 1
    /\ UNCHANGED <<config, pc, idx, entryIdx, error, constructs, tgwState, vpcLocals>>

\* (mutant) the maps and lists of lines 182-318 kept from one VPC to the next
CreateVpcKeepingMaps ==
    /\ pc = "vpcs"
    /\ vpcIdx <= Len(vpcs)
    /\ VpcPassFilter(vpcs[vpcIdx])
    /\ \E internetGateway \in BOOLEAN :
          LET vpcItem == [vpcs[vpcIdx] EXCEPT !.internetGateway = internetGateway]
              ref == NextRef(constructs)
          IN  /\ vpcs' = [vpcs EXCEPT ![vpcIdx] = vpcItem]
              /\ constructs' =
                    constructs
                    \o SecureVpc(ref, pascalCase(<<vpcItem.name, "Vpc">>), vpcIdx,
                                 vpcItem.name, vpcItem.internetGateway)
                    \o <<StringParameter(
                           pascalCase(<<"SsmParam", vpcItem.name, "VpcId">>),
                           VpcParameterName(vpcItem.name), ref)>>
              /\ vpc' = ref
    /\ routeTable' = Undefined
    /\ UNCHANGED <<routeTableMap, subnetMap, natGatewayMap, transitGatewayAttachments,
                   s3EndpointRouteTables, dynamodbEndpointRouteTables>>
    /\ pc' = "routeTables"
    /\ idx' = 1
    /\ UNCHANGED <<itemsRead, vpcIdx, entryIdx, error, tgwState>>

\* Create the VPC (lines 157-173); the maps of the iteration are new.
CreateVpc ==
    /\ pc = "vpcs"
    /\ vpcIdx <= Len(vpcs)
    /\ VpcPassFilter(vpcs[vpcIdx])
    /\ \E internetGateway \in BOOLEAN :
          LET vpcItem == [vpcs[vpcIdx] EXCEPT !.internetGateway = internetGateway]
              ref == NextRef(constructs)
          IN  /\ vpcs' = [vpcs EXCEPT ![vpcIdx] = vpcItem]
              /\ constructs' =
                    constructs
                    \o SecureVpc(ref, pascalCase(<<vpcItem.name, "Vpc">>), vpcIdx,
                                 vpcItem.name, vpcItem.internetGateway)
                    \o <<StringParameter(
                           pascalCase(<<"SsmParam", vpcItem.name, "VpcId">>),
                           VpcParameterName(vpcItem.name), ref)>>
              /\ vpc' = ref
    /\ routeTable' = Undefined
    /\ routeTableMap' = EmptyMap
    /\ subnetMap' = EmptyMap
    /\ natGatewayMap' = EmptyMap
    /\ transitGatewayAttachments' = EmptyMap
    /\ s3EndpointRouteTables' = <<>>
    /\ dynamodbEndpointRouteTables' = <<>>
    /\ pc' = "routeTables"
    /\ idx' = 1
    /\ UNCHANGED <<itemsRead, vpcIdx, entryIdx, error, tgwState>>

\* The second loop has run out of VPC definitions: the constructor returns.
EvaluateVpcsDone ==
    /\ pc = "vpcs"
    /\ vpcIdx > Len(vpcs)
    /\ pc' = "done"
    /\ UNCHANGED <<config, vpcIdx, idx, entryIdx, error, constructs, tgwState, vpcLocals>>

(* --------------------------- route tables ----------------------------- *)
RouteTableItems == [name : RouteTableNames, routes : {<<>>}]

SecureRouteTable(id, item, name, vpcRef) ==
    [kind |-> "RouteTable", scope |-> Stack, id |-> id, vpcItem |-> item,
     name |-> name, vpc |-> vpcRef]

CreateRouteTable ==
    /\ pc = "routeTables"
    /\ \E routeTableItem \in ItemsAt(vpcs[vpcIdx].routeTables, idx, RouteTableItems) :
          LET vpcItem == vpcs[vpcIdx]
              ref == NextRef(constructs)
          IN  /\ vpcs' = [vpcs EXCEPT ![vpcIdx].routeTables =
                                         Recorded(@, idx, routeTableItem)]
              /\ itemsRead' = Counted(vpcItem.routeTables, idx)
              /\ constructs' =
                    constructs
                    \o <<SecureRouteTable(
                           pascalCase(<<vpcItem.name, "Vpc">>)
                             \o pascalCase(<<routeTableItem.name, "RouteTable">>),
                           vpcIdx, routeTableItem.name, vpc),
                         StringParameter(
                           pascalCase(<<"SsmParam", vpcItem.name, routeTableItem.name,
                                        "RouteTableId">>),
                           ResourceParameterName(vpcItem.name, "routeTable",
                                                 routeTableItem.name),
                           ref)>>
              /\ routeTableMap' = MapSet(routeTableMap, routeTableItem.name, ref)
    /\ idx' = idx + 1
    /\ UNCHANGED <<pc, vpcIdx, entryIdx, error, tgwState, vpc, routeTable, subnetMap,
                   natGatewayMap, transitGatewayAttachments, s3EndpointRouteTables,
                   dynamodbEndpointRouteTables>>

RouteTablesDone ==
    /\ pc = "routeTables"
    /\ idx > Len(vpcs[vpcIdx].routeTables)
    /\ pc' = "subnets"
    /\ idx' = 1
    /\ UNCHANGED <<config, vpcIdx, entryIdx, error, constructs, tgwState, vpcLocals>>

(* ------------------------------ subnets ------------------------------- *)
\* (mutant) a lookup that is taken to have found its name
IsUndefinedUnchecked(x) == FALSE

\* routeTable === undefined, subnet === undefined, ...
IsUndefined(x) == x = Undefined

SecureSubnet(id, item, name, routeTableRef, vpcRef) ==
    [kind |-> "Subnet", scope |-> Stack, id |-> id, vpcItem |-> item, name |-> name,
     routeTable |-> routeTableRef, vpc |-> vpcRef]

\* routeTableMap.get(subnetItem.routeTable)
SubnetRouteTable(map, subnetItem) == MapGet(map, subnetItem.routeTable)

CreateSubnet ==
    /\ pc = "subnets"
    /\ \E subnetItem \in ItemsAt(vpcs[vpcIdx].subnets, idx, SubnetItems) :
          LET vpcItem == vpcs[vpcIdx]
              ref == NextRef(constructs)
              rt == SubnetRouteTable(routeTableMap, subnetItem)
          IN  /\ ~IsUndefined(rt)
              /\ vpcs' = [vpcs EXCEPT ![vpcIdx].subnets = Recorded(@, idx, subnetItem)]
              /\ itemsRead' = Counted(vpcItem.subnets, idx)
              /\ constructs' =
                    constructs
                    \o <<SecureSubnet(
                           pascalCase(<<vpcItem.name, "Vpc">>)
                             \o pascalCase(<<subnetItem.name, "Subnet">>),
                           vpcIdx, subnetItem.name, rt, vpc),
                         StringParameter(
                           pascalCase(<<"SsmParam", vpcItem.name, subnetItem.name,
                                        "SubnetId">>),
                           ResourceParameterName(vpcItem.name, "subnet", subnetItem.name),
                           ref)>>
              /\ subnetMap' = MapSet(subnetMap, subnetItem.name, ref)
    /\ idx' = idx + 1
    /\ UNCHANGED <<pc, vpcIdx, entryIdx, error, tgwState, vpc, routeTable, routeTableMap,
                   natGatewayMap, transitGatewayAttachments, s3EndpointRouteTables,
                   dynamodbEndpointRouteTables>>

\* throw new Error(`Route table ${subnetItem.routeTable} not defined`)
SubnetRouteTableNotDefined ==
    /\ pc = "subnets"
    /\ \E subnetItem \in ItemsAt(vpcs[vpcIdx].subnets, idx, SubnetItems) :
          /\ IsUndefined(SubnetRouteTable(routeTableMap, subnetItem))
          /\ vpcs' = [vpcs EXCEPT ![vpcIdx].subnets = Recorded(@, idx, subnetItem)]
          /\ itemsRead' = Counted(vpcs[vpcIdx].subnets, idx)
          /\ Throw(<<"Route table", subnetItem.routeTable, "not defined">>)

SubnetsDone ==
    /\ pc = "subnets"
    /\ idx > Len(vpcs[vpcIdx].subnets)
    /\ pc' = "natGateways"
    /\ idx' = 1
    /\ UNCHANGED <<config, vpcIdx, entryIdx, error, constructs, tgwState, vpcLocals>>

(* ---------------------------- NAT gateways ---------------------------- *)
SecureNatGateway(id, item, name, subnetRef) ==
    [kind |-> "NatGateway", scope |-> Stack, id |-> id, vpcItem |-> item, name |-> name,
     subnet |-> subnetRef]

\* subnetMap.get(natGatewayItem.subnet)
NatGatewaySubnet(map, natGatewayItem) == MapGet(map, natGatewayItem.subnet)

CreateNatGateway ==
    /\ pc = "natGateways"
    /\ \E natGatewayItem \in ItemsAt(vpcs[vpcIdx].natGateways, idx, NatGatewayItems) :
          LET vpcItem == vpcs[vpcIdx]
              ref == NextRef(constructs)
              subnet == NatGatewaySubnet(subnetMap, natGatewayItem)
          IN  /\ ~IsUndefined(subnet)
              /\ vpcs' = [vpcs EXCEPT ![vpcIdx].natGateways =
                                         Recorded(@, idx, natGatewayItem)]
              /\ itemsRead' = Counted(vpcItem.natGateways, idx)
              /\ constructs' =
                    constructs
                    \o <<SecureNatGateway(
                           pascalCase(<<vpcItem.name, "Vpc">>)
                             \o pascalCase(<<natGatewayItem.name, "NatGateway">>),
                           vpcIdx, natGatewayItem.name, subnet),
                         StringParameter(
                           pascalCase(<<"SsmParam", vpcItem.name, natGatewayItem.name,
                                        "NatGatewayId">>),
                           ResourceParameterName(vpcItem.name, "natGateway",
                                                 natGatewayItem.name),
                           ref)>>
              /\ natGatewayMap' = MapSet(natGatewayMap, natGatewayItem.name, ref)
    /\ idx' = idx + 1
    /\ UNCHANGED <<pc, vpcIdx, entryIdx, error, tgwState, vpc, routeTable, routeTableMap,
                   subnetMap, transitGatewayAttachments, s3EndpointRouteTables,
                   dynamodbEndpointRouteTables>>

\* throw new Error(`Subnet ${natGatewayItem.subnet} not defined`)
NatGatewaySubnetNotDefined ==
    /\ pc = "natGateways"
    /\ \E natGatewayItem \in ItemsAt(vpcs[vpcIdx].natGateways, idx, NatGatewayItems) :
          /\ IsUndefined(NatGatewaySubnet(subnetMap, natGatewayItem))
          /\ vpcs' = [vpcs EXCEPT ![vpcIdx].natGateways =
                                     Recorded(@, idx, natGatewayItem)]
          /\ itemsRead' = Counted(vpcs[vpcIdx].natGateways, idx)
          /\ Throw(<<"Subnet", natGatewayItem.subnet, "not defined">>)

NatGatewaysDone ==
    /\ pc = "natGateways"
    /\ idx > Len(vpcs[vpcIdx].natGateways)
    /\ pc' = "attachments"
    /\ idx' = 1
    /\ UNCHANGED <<config, vpcIdx, entryIdx, error, constructs, tgwState, vpcLocals>>

(* -------------------- transit gateway attachments --------------------- *)
TransitGatewayAttachment(id, item, name, transitGatewayId, subnetIds, vpcId) ==
    [kind |-> "TransitGatewayAttachment", scope |-> Stack, id |-> id, vpcItem |-> item,
     name |-> name, transitGatewayId |-> transitGatewayId, subnetIds |-> subnetIds,
     vpcId |-> vpcId]

\* transitGatewayIds.get(name): the identifier, or undefined
TransitGatewayIdOf(ids, name) == IF MapHas(ids, name) THEN ids[name] ELSE NoTransitGatewayId

\* The loop of lines 282-288: the subnet ids, up to the first subnet that
\* subnetMap does not hold.
RECURSIVE SubnetIdsOf(_, _)
SubnetIdsOf(map, subnets) ==
    IF subnets = <<>> \/ IsUndefined(MapGet(map, Head(subnets))) THEN <<>>
    ELSE <<MapGet(map, Head(subnets))>> \o SubnetIdsOf(map, Tail(subnets))

\* The first subnet of the attachment that subnetMap does not hold, or "".
RECURSIVE FirstUndefinedSubnet(_, _)
FirstUndefinedSubnet(map, subnets) ==
    IF subnets = <<>> THEN ""
    ELSE IF IsUndefined(MapGet(map, Head(subnets))) THEN Head(subnets)
    ELSE FirstUndefinedSubnet(map, Tail(subnets))

\* One iteration of the loop of lines 273-311.
CreateTransitGatewayAttachment ==
    /\ pc = "attachments"
    /\ idx <= Len(vpcs[vpcIdx].transitGatewayAttachments)
    /\ \E subnets \in AttachmentSubnetLists :
          LET vpcItem == vpcs[vpcIdx]
              tgwAttachmentItem ==
                  [vpcItem.transitGatewayAttachments[idx] EXCEPT !.subnets = subnets]
              transitGatewayId ==
                  TransitGatewayIdOf(transitGatewayIds, tgwAttachmentItem.transitGateway.name)
              missing == FirstUndefinedSubnet(subnetMap, tgwAttachmentItem.subnets)
              ref == NextRef(constructs)
          IN  /\ vpcs' = [vpcs EXCEPT ![vpcIdx].transitGatewayAttachments[idx] =
                                         tgwAttachmentItem]
              /\ IF transitGatewayId = NoTransitGatewayId
                 THEN Throw(<<"Transit Gateway", tgwAttachmentItem.transitGateway.name,
                              "not found">>)
                 ELSE IF missing # ""
                 THEN Throw(<<"Subnet", missing, "not defined">>)
                 ELSE /\ constructs' =
                            constructs
                            \o <<TransitGatewayAttachment(
                                   pascalCase(<<tgwAttachmentItem.name,
                                                "VpcTransitGatewayAttachment">>),
                                   vpcIdx, tgwAttachmentItem.name, transitGatewayId,
                                   SubnetIdsOf(subnetMap, tgwAttachmentItem.subnets), vpc),
                                 StringParameter(
                                   pascalCase(<<"SsmParam", vpcItem.name,
                                                tgwAttachmentItem.name,
                                                "TransitGatewayAttachmentId">>),
                                   ResourceParameterName(vpcItem.name,
                                                         "transitGatewayAttachment",
                                                         tgwAttachmentItem.name),
                                   ref)>>
                      /\ transitGatewayAttachments' =
                            MapSet(transitGatewayAttachments,
                                   tgwAttachmentItem.transitGateway.name, ref)
                      /\ idx' = idx + 1
                      /\ UNCHANGED <<pc, vpcIdx, entryIdx, error, tgwState, vpc,
                                     routeTable, routeTableMap, subnetMap, natGatewayMap,
                                     s3EndpointRouteTables, dynamodbEndpointRouteTables>>
    /\ UNCHANGED itemsRead

\* (mutant) the subnet step run after the attachment step
AttachmentsDoneThenSubnets ==
    /\ pc = "attachments"
    /\ idx > Len(vpcs[vpcIdx].transitGatewayAttachments)
    /\ pc' = "subnets"
    /\ idx' = 1
    /\ entryIdx' = 0
    /\ UNCHANGED <<config, vpcIdx, error, constructs, tgwState, vpcLocals>>

AttachmentsDone ==
    /\ pc = "attachments"
    /\ idx > Len(vpcs[vpcIdx].transitGatewayAttachments)
    /\ pc' = "routes"
    /\ idx' = 1
    /\ entryIdx' = 0
    /\ UNCHANGED <<config, vpcIdx, error, constructs, tgwState, vpcLocals>>

(* --------------------------- route entries ---------------------------- *)
RouteEntryItems(i) ==
    {[name |-> RouteEntryNames[i], type |-> tt[1], target |-> tt[2],
      destination |-> Destination] : tt \in RouteTypeTargets}

\* new ec2.CfnRoute(this, id, {...}) in a route table; tgw, nat, gw are its
\* transitGatewayId, natGatewayId and gatewayId, deps what it depends on.
CfnRoute(scope, id, item, destination, tgw, nat, gw, deps) ==
    [kind |-> "Route", scope |-> scope, id |-> id, vpcItem |-> item,
     routeTableId |-> scope, destinationCidrBlock |-> destination,
     transitGatewayId |-> tgw, natGatewayId |-> nat, gatewayId |-> gw,
     dependsOn |-> deps]

\* The route table the outer loop of the route entry step turns to
\* (lines 319-324).
LookUpRouteTable ==
    /\ pc = "routes"
    /\ entryIdx = 0
    /\ idx <= Len(vpcs[vpcIdx].routeTables)
    /\ LET routeTableItem == vpcs[vpcIdx].routeTables[idx]
           rt == MapGet(routeTableMap, routeTableItem.name)
       IN  IF IsUndefined(rt)
           THEN Throw(<<"Route Table", routeTableItem.name, "not found">>)
           ELSE /\ routeTable' = rt
                /\ entryIdx' = 1
                /\ UNCHANGED <<pc, vpcIdx, idx, error, constructs, tgwState, vpc,
                               routeTableMap, subnetMap, natGatewayMap,
                               transitGatewayAttachments, s3EndpointRouteTables,
                               dynamodbEndpointRouteTables>>
    /\ UNCHANGED config

\* The route entry the inner loop reads.
CanReadRouteEntry ==
    /\ pc = "routes"
    /\ entryIdx >= 1
    /\ entryIdx <= Len(RouteEntryNames)

RouteEntriesAt ==
    ItemsAt(vpcs[vpcIdx].routeTables[idx].routes, entryIdx, RouteEntryItems(entryIdx))

ReadRouteEntry(entry) ==
    /\ vpcs' = [vpcs EXCEPT ![vpcIdx].routeTables[idx].routes =
                               Recorded(@, entryIdx, entry)]
    /\ itemsRead' = Counted(vpcs[vpcIdx].routeTables[idx].routes, entryIdx)

\* pascalCase(`${vpc}Vpc`) + pascalCase(`${routeTable}RouteTable`) + pascalCase(entry)
RouteId(vpcItem, routeTableItem, entry) ==
    pascalCase(<<vpcItem.name, "Vpc">>)
      \o pascalCase(<<routeTableItem.name, "RouteTable">>)
      \o pascalCase(<<entry.name>>)

\* What every route entry that does not throw leaves alone.
EntryDone ==
    /\ entryIdx' = entryIdx + 1
    /\ UNCHANGED <<pc, vpcIdx, idx, error, tgwState, vpc, routeTable, routeTableMap,
                   subnetMap, natGatewayMap, transitGatewayAttachments>>

\* SecureRouteTable.addTransitGatewayRoute
AddTransitGatewayRoute ==
    /\ CanReadRouteEntry
    /\ \E entry \in RouteEntriesAt :
          LET transitGatewayId == TransitGatewayIdOf(transitGatewayIds, entry.target)
              transitGatewayAttachment == MapGet(transitGatewayAttachments, entry.target)
          IN  /\ entry.type = "transitGateway"
              /\ transitGatewayId # NoTransitGatewayId
              /\ ~IsUndefined(transitGatewayAttachment)
              /\ ReadRouteEntry(entry)
              /\ constructs' =
                    Append(constructs,
                           CfnRoute(routeTable,
                                    RouteId(vpcs[vpcIdx], vpcs[vpcIdx].routeTables[idx], entry),
                                    vpcIdx, entry.destination, transitGatewayId, Undefined,
                                    Undefined, <<transitGatewayAttachment>>))
    /\ EntryDone
    /\ UNCHANGED <<s3EndpointRouteTables, dynamodbEndpointRouteTables>>

\* throw new Error(`Transit Gateway ${target} not found`)
RouteTransitGatewayNotFound ==
    /\ CanReadRouteEntry
    /\ \E entry \in RouteEntriesAt :
          /\ entry.type = "transitGateway"
          /\ TransitGatewayIdOf(transitGatewayIds, entry.target) = NoTransitGatewayId
          /\ ReadRouteEntry(entry)
          /\ Throw(<<"Transit Gateway", entry.target, "not found">>)

\* throw new Error(`Transit Gateway Attachment ${target} not found`)
RouteTransitGatewayAttachmentNotFound ==
    /\ CanReadRouteEntry
    /\ \E entry \in RouteEntriesAt :
          /\ entry.type = "transitGateway"
          /\ TransitGatewayIdOf(transitGatewayIds, entry.target) # NoTransitGatewayId
          /\ IsUndefined(MapGet(transitGatewayAttachments, entry.target))
          /\ ReadRouteEntry(entry)
          /\ Throw(<<"Transit Gateway Attachment", entry.target, "not found">>)

\* SecureRouteTable.addNatGatewayRoute
AddNatGatewayRoute ==
    /\ CanReadRouteEntry
    /\ \E entry \in RouteEntriesAt :
          LET natGateway == MapGet(natGatewayMap, entry.target)
          IN  /\ entry.type = "natGateway"
              /\ ~IsUndefined(natGateway)
              /\ ReadRouteEntry(entry)
              /\ constructs' =
                    Append(constructs,
                           CfnRoute(routeTable,
                                    RouteId(vpcs[vpcIdx], vpcs[vpcIdx].routeTables[idx], entry),
                                    vpcIdx, entry.destination, NoTransitGatewayId,
                                    natGateway, Undefined, <<>>))
    /\ EntryDone
    /\ UNCHANGED <<s3EndpointRouteTables, dynamodbEndpointRouteTables>>

\* throw new Error(`NAT Gateway ${target} not found`)
RouteNatGatewayNotFound ==
    /\ CanReadRouteEntry
    /\ \E entry \in RouteEntriesAt :
          /\ entry.type = "natGateway"
          /\ IsUndefined(MapGet(natGatewayMap, entry.target))
          /\ ReadRouteEntry(entry)
          /\ Throw(<<"NAT Gateway", entry.target, "not found">>)

\* this.vpc.internetGatewayId of a route table
InternetGatewayIdOf(cs, rt) == cs[cs[rt].vpc].internetGatewayId

\* (mutant) the check of line 79 left out
NoInternetGatewayUnchecked(internetGatewayId) == FALSE

\* !this.vpc.internetGatewayId
NoInternetGateway(internetGatewayId) == internetGatewayId = Undefined

\* SecureRouteTable.addInternetGatewayRoute, the gateway being there
AddInternetGatewayRoute ==
    /\ CanReadRouteEntry
    /\ \E entry \in RouteEntriesAt :
          LET internetGatewayId == InternetGatewayIdOf(constructs, routeTable)
          IN  /\ entry.type = "internetGateway"
              /\ ~NoInternetGateway(internetGatewayId)
              /\ ReadRouteEntry(entry)
              /\ constructs' =
                    Append(constructs,
                           CfnRoute(routeTable,
                                    RouteId(vpcs[vpcIdx], vpcs[vpcIdx].routeTables[idx], entry),
                                    vpcIdx, entry.destination, NoTransitGatewayId,
                                    Undefined, internetGatewayId, <<>>))
    /\ EntryDone
    /\ UNCHANGED <<s3EndpointRouteTables, dynamodbEndpointRouteTables>>

\* SecureRouteTable.addInternetGatewayRoute, the gateway missing
InternetGatewayRouteWithoutGateway ==
    /\ CanReadRouteEntry
    /\ \E entry \in RouteEntriesAt :
          /\ entry.type = "internetGateway"
          /\ NoInternetGateway(InternetGatewayIdOf(constructs, routeTable))
          /\ ReadRouteEntry(entry)
          /\ Throw(<<"Attempting to add Internet Gateway route without an IGW defined.">>)

\* The type of the entry is none of the three route types.
NoRouteType(entry) ==
    entry.type \notin {"transitGateway", "natGateway", "internetGateway"}

\* lines 364-367
RecordS3RouteTable ==
    /\ CanReadRouteEntry
    /\ \E entry \in RouteEntriesAt :
          /\ NoRouteType(entry)
          /\ entry.target = "s3"
          /\ ReadRouteEntry(entry)
    /\ s3EndpointRouteTables' = PushIfAbsent(s3EndpointRouteTables, routeTable)
    /\ EntryDone
    /\ UNCHANGED <<constructs, dynamodbEndpointRouteTables>>

\* lines 368-371
RecordDynamodbRouteTable ==
    /\ CanReadRouteEntry
    /\ \E entry \in RouteEntriesAt :
          /\ NoRouteType(entry)
          /\ entry.target = "dynamodb"
          /\ ReadRouteEntry(entry)
    /\ dynamodbEndpointRouteTables' = PushIfAbsent(dynamodbEndpointRouteTables, routeTable)
    /\ EntryDone
    /\ UNCHANGED <<constructs, s3EndpointRouteTables>>

\* No branch of the chain of lines 332-372 takes the entry.
PassOverRouteEntry ==
    /\ CanReadRouteEntry
    /\ \E entry \in RouteEntriesAt :
          /\ NoRouteType(entry)
          /\ entry.target \notin {"s3", "dynamodb"}
          /\ ReadRouteEntry(entry)
    /\ EntryDone
    /\ UNCHANGED <<constructs, s3EndpointRouteTables, dynamodbEndpointRouteTables>>

\* The inner loop has run out of route entries.
RouteEntriesDone ==
    /\ pc = "routes"
    /\ entryIdx >= 1
    /\ entryIdx > Len(vpcs[vpcIdx].routeTables[idx].routes)
    /\ idx' = idx + 1
    /\ entryIdx' = 0
    /\ UNCHANGED <<config, pc, vpcIdx, error, constructs, tgwState, vpcLocals>>

\* The outer loop has run out of route tables.
RoutesDone ==
    /\ pc = "routes"
    /\ entryIdx = 0
    /\ idx > Len(vpcs[vpcIdx].routeTables)
    /\ pc' = "endpoints"
    /\ idx' = 1
    /\ UNCHANGED <<config, vpcIdx, entryIdx, error, constructs, tgwState, vpcLocals>>

(* -------------------------- gateway endpoints ------------------------- *)
\* SecureVpc.addGatewayVpcEndpoint
CfnVPCEndpoint(scope, id, item, service, routeTableIds) ==
    [kind |-> "VPCEndpoint", scope |-> scope, id |-> id, vpcItem |-> item,
     serviceName |-> service, vpcId |-> scope, routeTableIds |-> routeTableIds]

ReadGatewayEndpoint(gatewayEndpointItem) ==
    /\ vpcs' = [vpcs EXCEPT ![vpcIdx].gatewayEndpoints =
                               Recorded(@, idx, gatewayEndpointItem)]
    /\ itemsRead' = Counted(vpcs[vpcIdx].gatewayEndpoints, idx)

GatewayEndpointsAt == ItemsAt(vpcs[vpcIdx].gatewayEndpoints, idx, GatewayEndpointItems)

AddS3GatewayEndpoint ==
    /\ pc = "endpoints"
    /\ \E gatewayEndpointItem \in GatewayEndpointsAt :
          /\ gatewayEndpointItem = "s3"
          /\ ReadGatewayEndpoint(gatewayEndpointItem)
          /\ constructs' =
                Append(constructs,
                       CfnVPCEndpoint(vpc,
                                      pascalCase(<<vpcs[vpcIdx].name, "Vpc">>)
                                        \o pascalCase(<<gatewayEndpointItem>>),
                                      vpcIdx, gatewayEndpointItem, s3EndpointRouteTables))
    /\ idx' = idx + 1
    /\ UNCHANGED <<pc, vpcIdx, entryIdx, error, tgwState, vpcLocals>>

AddDynamodbGatewayEndpoint ==
    /\ pc = "endpoints"
    /\ \E gatewayEndpointItem \in GatewayEndpointsAt :
          /\ gatewayEndpointItem # "s3"
          /\ gatewayEndpointItem = "dynamodb"
          /\ ReadGatewayEndpoint(gatewayEndpointItem)
          /\ constructs' =
                Append(constructs,
                       CfnVPCEndpoint(vpc,
                                      pascalCase(<<vpcs[vpcIdx].name, "Vpc">>)
                                        \o pascalCase(<<gatewayEndpointItem>>),
                                      vpcIdx, gatewayEndpointItem,
                                      dynamodbEndpointRouteTables))
    /\ idx' = idx + 1
    /\ UNCHANGED <<pc, vpcIdx, entryIdx, error, tgwState, vpcLocals>>

\* A gateway endpoint item that is neither 's3' nor 'dynamodb'.
PassOverGatewayEndpoint ==
    /\ pc = "endpoints"
    /\ \E gatewayEndpointItem \in GatewayEndpointsAt :
          /\ gatewayEndpointItem \notin {"s3", "dynamodb"}
          /\ ReadGatewayEndpoint(gatewayEndpointItem)
    /\ idx' = idx + 1
    /\ UNCHANGED <<pc, vpcIdx, entryIdx, error, constructs, tgwState, vpcLocals>>

\* The body of the second loop ends: on to the next VPC definition.
GatewayEndpointsDone ==
    /\ pc = "endpoints"
    /\ idx > Len(vpcs[vpcIdx].gatewayEndpoints)
    /\ pc' = "vpcs"
    /\ vpcIdx' = vpcIdx + 1
    /\ UNCHANGED <<config, idx, entryIdx, error, constructs, tgwState, vpcLocals>>

Next ==
    \/ AddDeleteDefaultVpc
    \/ KeepDefaultVpc
    \/ TransitGatewayPassVisitVpc
    \/ TransitGatewayAlreadyInDictionary
    \/ TransitGatewayFromParameter
    \/ TransitGatewayFromResourceShare
    \/ TransitGatewayPassDone
    \/ CreateCrossAccountRole
    \/ NoCrossAccountRole
    \/ SkipVpc
    \/ CreateVpc
    \/ EvaluateVpcsDone
    \/ CreateRouteTable
    \/ RouteTablesDone
    \/ CreateSubnet
    \/ SubnetRouteTableNotDefined
    \/ SubnetsDone
    \/ CreateNatGateway
    \/ NatGatewaySubnetNotDefined
    \/ NatGatewaysDone
    \/ CreateTransitGatewayAttachment
    \/ AttachmentsDone
    \/ LookUpRouteTable
    \/ AddTransitGatewayRoute
    \/ RouteTransitGatewayNotFound
    \/ RouteTransitGatewayAttachmentNotFound
    \/ AddNatGatewayRoute
    \/ RouteNatGatewayNotFound
    \/ AddInternetGatewayRoute
    \/ InternetGatewayRouteWithoutGateway
    \/ RecordS3RouteTable
    \/ RecordDynamodbRouteTable
    \/ PassOverRouteEntry
    \/ RouteEntriesDone
    \/ RoutesDone
    \/ AddS3GatewayEndpoint
    \/ AddDynamodbGatewayEndpoint
    \/ PassOverGatewayEndpoint
    \/ GatewayEndpointsDone

Spec == Init /\ [][Next]_vars

(* ====================================================================== *)
(* The claims.  They speak of the configuration and of the outcome, and   *)
(* spell out names, paths and messages themselves.                        *)
(* ====================================================================== *)

\* The VPC definition at position v is for the current account and region.
InContext(v) ==
    AccountIdOf(vpcs[v].account) = ThisAccount /\ vpcs[v].region = ThisRegion

Failed == pc = "failed"

InternetGatewayError ==
    <<"Attempting to add Internet Gateway route without an IGW defined.">>

ConstructsOf(kind) == {i \in DOMAIN constructs : constructs[i].kind = kind}

RouteTableNamesOf(v) ==
    {vpcs[v].routeTables[t].name : t \in DOMAIN vpcs[v].routeTables}
SubnetNamesOf(v) == {vpcs[v].subnets[i].name : i \in DOMAIN vpcs[v].subnets}
NatGatewayNamesOf(v) == {vpcs[v].natGateways[i].name : i \in DOMAIN vpcs[v].natGateways}
AttachedTransitGatewaysOf(v) ==
    {vpcs[v].transitGatewayAttachments[i].transitGateway.name :
        i \in DOMAIN vpcs[v].transitGatewayAttachments}

\* The route entries of VPC definition v that have one of the given types.
RouteEntriesOf(v, types) ==
    {vpcs[v].routeTables[t].routes[e] :
        <<t, e>> \in {te \in (DOMAIN vpcs[v].routeTables) \X (1..Len(RouteEntryNames)) :
                         /\ te[2] <= Len(vpcs[v].routeTables[te[1]].routes)
                         /\ vpcs[v].routeTables[te[1]].routes[te[2]].type \in types}}

(* ------------------------------- C1 ----------------------------------- *)
\* C1: whenever a route table of a VPC of this account and region that is
\* built without internetGateway holds a route entry of type
\* 'internetGateway', the pass has failed with the internet gateway error and
\* no route with a gateway target exists in that VPC: the entry is never
\* passed over in silence.
C1_InternetGatewayRouteWithoutGatewayFails ==
    \A v \in DOMAIN vpcs :
        (/\ InContext(v)
         /\ ~vpcs[v].internetGateway
         /\ RouteEntriesOf(v, {"internetGateway"}) # {})
        => /\ Failed
           /\ error = InternetGatewayError
           /\ \A r \in ConstructsOf("Route") :
                 constructs[r].vpcItem = v => constructs[r].gatewayId = Undefined

C1_Witness ==
    /\ Failed
    /\ error = InternetGatewayError
    /\ ~vpcs[vpcIdx].internetGateway
    /\ RouteEntriesOf(vpcIdx, {"internetGateway"}) # {}

(* ------------------------------- C2 ----------------------------------- *)
\* The references of VPC definition v that name nothing declared in v, each
\* with the message that names it.
DanglingSubnetRouteTables(v) ==
    {<<"Route table", vpcs[v].subnets[i].routeTable, "not defined">> :
        i \in {j \in DOMAIN vpcs[v].subnets :
                  vpcs[v].subnets[j].routeTable \notin RouteTableNamesOf(v)}}

DanglingNatGatewaySubnets(v) ==
    {<<"Subnet", vpcs[v].natGateways[i].subnet, "not defined">> :
        i \in {j \in DOMAIN vpcs[v].natGateways :
                  vpcs[v].natGateways[j].subnet \notin SubnetNamesOf(v)}}

DanglingAttachmentSubnets(v) ==
    {<<"Subnet", sn, "not defined">> :
        sn \in {x \in SubnetNames :
                  /\ x \notin SubnetNamesOf(v)
                  /\ \E i \in DOMAIN vpcs[v].transitGatewayAttachments :
                        \E k \in DOMAIN vpcs[v].transitGatewayAttachments[i].subnets :
                            vpcs[v].transitGatewayAttachments[i].subnets[k] = x}}

DanglingNatGatewayRoutes(v) ==
    {<<"NAT Gateway", e.target, "not found">> :
        e \in {x \in RouteEntriesOf(v, {"natGateway"}) : x.target \notin NatGatewayNamesOf(v)}}

\* A transit gateway route whose target no attachment of v names fails for
\* the missing transit gateway or for the missing attachment.
DanglingTransitGatewayRoutes(v) ==
    UNION {{<<"Transit Gateway", e.target, "not found">>,
            <<"Transit Gateway Attachment", e.target, "not found">>} :
        e \in {x \in RouteEntriesOf(v, {"transitGateway"}) :
                  x.target \notin AttachedTransitGatewaysOf(v)}}

\* The second loop is past the attachment step of VPC definition v.
PastAttachments(v) ==
    \/ pc = "done"
    \/ v < vpcIdx
    \/ v = vpcIdx /\ pc \in {"routes", "endpoints"}

\* C2: in a VPC definition of this account and region, (a) a subnet naming an
\* undeclared route table, (b) a NAT gateway naming an undeclared subnet, (d) a
\* natGateway route entry targeting an undeclared NAT gateway and (e) a
\* transitGateway route entry targeting a transit gateway without an attachment
\* in the VPC each leave the pass failed; (c) no pass gets past the attachment
\* step of a VPC with an attachment listing an undeclared subnet; and a failed
\* pass carries the internet gateway message or a message naming a reference of
\* the VPC it stopped in that is unresolved.
C2_UnresolvedReferenceFails ==
    /\ \A v \in DOMAIN vpcs :
          InContext(v) =>
            /\ (DanglingSubnetRouteTables(v) \cup DanglingNatGatewaySubnets(v)
                   \cup DanglingNatGatewayRoutes(v)
                   \cup DanglingTransitGatewayRoutes(v)) # {} => Failed
            /\ DanglingAttachmentSubnets(v) # {} => ~PastAttachments(v)
    /\ Failed =>
          /\ vpcIdx \in DOMAIN vpcs
          /\ InContext(vpcIdx)
          /\ error \in ({InternetGatewayError}
                          \cup DanglingSubnetRouteTables(vpcIdx)
                          \cup DanglingNatGatewaySubnets(vpcIdx)
                          \cup DanglingAttachmentSubnets(vpcIdx)
                          \cup DanglingNatGatewayRoutes(vpcIdx)
                          \cup DanglingTransitGatewayRoutes(vpcIdx))

\* A pass that failed at an attachment listing an undeclared subnet, its
\* route tables and subnets having resolved.
C2_Witness ==
    /\ Failed
    /\ error = <<"Subnet", "web", "not defined">>
    /\ vpcs[vpcIdx].natGateways = <<>>
    /\ vpcs[vpcIdx].subnets # <<>>
    /\ DanglingAttachmentSubnets(vpcIdx) # {}

(* ------------------------------- C3 ----------------------------------- *)
AttachmentNamesOf(v) ==
    {vpcs[v].transitGatewayAttachments[i].name :
        i \in DOMAIN vpcs[v].transitGatewayAttachments}

\* Every name VPC definition v declares is declared once.
DistinctNames(v) ==
    /\ Cardinality(RouteTableNamesOf(v)) = Len(vpcs[v].routeTables)
    /\ Cardinality(SubnetNamesOf(v)) = Len(vpcs[v].subnets)
    /\ Cardinality(NatGatewayNamesOf(v)) = Len(vpcs[v].natGateways)
    /\ Cardinality(AttachmentNamesOf(v)) = Len(vpcs[v].transitGatewayAttachments)

\* Every reference of VPC definition v names something an earlier step of v
\* puts out: a declared route table, subnet, NAT gateway, an attached transit
\* gateway, the internet gateway of the VPC.
ReferencesResolve(v) ==
    /\ DanglingSubnetRouteTables(v) = {}
    /\ DanglingNatGatewaySubnets(v) = {}
    /\ DanglingAttachmentSubnets(v) = {}
    /\ DanglingNatGatewayRoutes(v) = {}
    /\ DanglingTransitGatewayRoutes(v) = {}
    /\ RouteEntriesOf(v, {"internetGateway"}) # {} => vpcs[v].internetGateway

ValidConfiguration ==
    \A v \in DOMAIN vpcs : InContext(v) => DistinctNames(v) /\ ReferencesResolve(v)

\* The constructs of a kind made for VPC definition v under a name.
Made(kind, v, name) ==
    {i \in ConstructsOf(kind) : constructs[i].vpcItem = v /\ constructs[i].name = name}

ParametersAt(parameterName) ==
    {i \in ConstructsOf("StringParameter") : constructs[i].parameterName = parameterName}

\* One construct of the kind for v under the name, and one parameter at the
\* path, holding the identifier of that construct.
OnceAndPublished(kind, v, name, parameterName) ==
    /\ Cardinality(Made(kind, v, name)) = 1
    /\ Cardinality(ParametersAt(parameterName)) = 1
    /\ \A p \in ParametersAt(parameterName) : constructs[p].stringValue \in Made(kind, v, name)

VpcPath(v) == <<"accelerator", "network", "vpc", vpcs[v].name>>

PerVpcKinds ==
    {"Vpc", "InternetGateway", "VPCGatewayAttachment", "RouteTable", "Subnet",
     "NatGateway", "TransitGatewayAttachment", "Route", "VPCEndpoint"}

\* The constructs made for VPC definition v.
MadeFor(v) ==
    {i \in DOMAIN constructs :
        constructs[i].kind \in PerVpcKinds /\ constructs[i].vpcItem = v}

\* The parameters published under /accelerator/network/vpc/{name of v}.
PublishedFor(v) ==
    {i \in ConstructsOf("StringParameter") :
        /\ Len(constructs[i].parameterName) >= 4
        /\ SubSeq(constructs[i].parameterName, 1, 4) = VpcPath(v)}

TransitGatewayLookups ==
    ConstructsOf("ParameterLookup") \cup ConstructsOf("ResourceShareLookup")
      \cup ConstructsOf("ResourceShareItemLookup")

\* The transit gateways named by attachments of VPC definitions in context.
TransitGatewaysInContext ==
    UNION {AttachedTransitGatewaysOf(v) : v \in {x \in DOMAIN vpcs : InContext(x)}}

\* C4: a VPC definition of another account or region produces nothing: no
\* construct is made for it and no parameter is published under its name; its
\* attachments cause no transit gateway lookup (only transit gateways attached
\* by VPC definitions in context are cached, and with none there is no lookup
\* construct); and the pass never fails in it, whatever its references.
C4_OutOfContextVpcProducesNothing ==
    /\ \A v \in DOMAIN vpcs :
          ~InContext(v) => MadeFor(v) = {} /\ PublishedFor(v) = {}
    /\ DOMAIN transitGatewayIds \subseteq TransitGatewaysInContext
    /\ TransitGatewaysInContext = {} => TransitGatewayLookups = {}
    /\ Failed => vpcIdx \in DOMAIN vpcs /\ InContext(vpcIdx)

\* A finished pass over two VPC definitions, in another account and in
\* another region, each with dangling references and an attachment.
C4_Witness ==
    /\ pc = "done"
    /\ Len(vpcs) = 2
    /\ AccountIdOf(vpcs[1].account) # ThisAccount
    /\ vpcs[2].region # ThisRegion /\ AccountIdOf(vpcs[2].account) = ThisAccount
    /\ \A v \in DOMAIN vpcs :
          /\ vpcs[v].transitGatewayAttachments # <<>>
          /\ DanglingSubnetRouteTables(v) # {}
    /\ \A i \in DOMAIN constructs :
          constructs[i] \in {StackIdParameter, DeleteDefaultVpc}

(* ------------------------------- C5 ----------------------------------- *)
StepOfKind(kind) ==
    CASE kind \in {"Vpc", "InternetGateway", "VPCGatewayAttachment"} -> 1
      [] kind = "RouteTable" -> 2
      [] kind = "Subnet" -> 3
      [] kind = "NatGateway" -> 4
      [] kind = "TransitGatewayAttachment" -> 5
      [] kind = "Route" -> 6
      [] kind = "VPCEndpoint" -> 7

\* The place of a resource in the order of creation: the stack parameter and
\* the default VPCs, the transit gateway lookups, the role, then VPC by VPC
\* and, within a VPC, step by step.
PlaceOf(kind, vpcItem) ==
    CASE kind \in {"StringParameter", "DeleteDefaultVpc"} -> 0
      [] kind \in {"ParameterLookup", "ResourceShareLookup",
                   "ResourceShareItemLookup"} -> 1
      [] kind = "Role" -> 2
      [] OTHER -> 10 * vpcItem + StepOfKind(kind)

\* The place of construct i of log cs; a published parameter has the place of
\* the resource whose identifier it holds.
PlaceIn(cs, i) ==
    LET r == IF cs[i].kind = "StringParameter" /\ cs[i].stringValue # Stack
             THEN cs[i].stringValue ELSE i
    IN  PlaceOf(cs[r].kind, IF cs[r].kind \in PerVpcKinds THEN cs[r].vpcItem ELSE 0)

\* The place of what the step the pass is in creates.
PlaceOfStep ==
    CASE pc = "defaultVpc" -> 0
      [] pc = "transitGateways" -> 1
      [] pc = "role" -> 2
      [] pc = "vpcs" -> 10 * vpcIdx + 1
      [] pc = "routeTables" -> 10 * vpcIdx + 2
      [] pc = "subnets" -> 10 * vpcIdx + 3
      [] pc = "natGateways" -> 10 * vpcIdx + 4
      [] pc = "attachments" -> 10 * vpcIdx + 5
      [] pc = "routes" -> 10 * vpcIdx + 6
      [] pc = "endpoints" -> 10 * vpcIdx + 7
      [] OTHER -> 0

\* r is a construct of the given kind made before construct i of log cs for
\* the same VPC.
EarlierOf(cs, kind, i, r) ==
    /\ r \in 1..(i - 1)
    /\ cs[r].kind = kind
    /\ cs[r].vpcItem = cs[i].vpcItem

\* Every identifier construct i of log cs was given is that of a construct of
\* an earlier step of the same VPC, or a cached transit gateway identifier.
ReadsEarlierSteps(cs, i) ==
    LET c == cs[i]
    IN  CASE c.kind = "StringParameter" -> c.stringValue < i
          [] c.kind = "RouteTable" -> EarlierOf(cs, "Vpc", i, c.vpc)
          [] c.kind = "Subnet" ->
                /\ EarlierOf(cs, "Vpc", i, c.vpc)
                /\ EarlierOf(cs, "RouteTable", i, c.routeTable)
          [] c.kind = "NatGateway" -> EarlierOf(cs, "Subnet", i, c.subnet)
          [] c.kind = "TransitGatewayAttachment" ->
                /\ EarlierOf(cs, "Vpc", i, c.vpcId)
                /\ \A k \in DOMAIN c.subnetIds : EarlierOf(cs, "Subnet", i, c.subnetIds[k])
                /\ \E n \in DOMAIN transitGatewayIds :
                      c.transitGatewayId = transitGatewayIds[n]
          [] c.kind = "Route" ->
                /\ EarlierOf(cs, "RouteTable", i, c.routeTableId)
                /\ c.natGatewayId # Undefined =>
                      EarlierOf(cs, "NatGateway", i, c.natGatewayId)
                /\ c.gatewayId # Undefined =>
                      EarlierOf(cs, "InternetGateway", i, c.gatewayId)
                /\ \A k \in DOMAIN c.dependsOn :
                      EarlierOf(cs, "TransitGatewayAttachment", i, c.dependsOn[k])
          [] c.kind = "VPCEndpoint" ->
                /\ EarlierOf(cs, "Vpc", i, c.vpcId)
                /\ \A k \in DOMAIN c.routeTableIds :
                      EarlierOf(cs, "RouteTable", i, c.routeTableIds[k])
          [] OTHER -> TRUE

\* C5: creation follows a fixed order. No step removes or changes a construct
\* made before it, and every construct a step makes (a) is made by the step
\* of the pass it belongs to: the transit gateway lookups in the resolution
\* pass, the role in the role step, and for the VPC in progress the VPC, its
\* route tables, subnets, NAT gateways, attachments, routes and gateway
\* endpoints in the steps of those names, each parameter with its resource;
\* (b) comes no earlier in the order lookups, role, VPC by VPC and step by
\* step than the construct made before it; and (c) holds only identifiers of
\* constructs of an earlier step of the same VPC. The resolution pass and the
\* role step are over before anything of a VPC is made.
C5_CreationOrder ==
    [][/\ Len(constructs') >= Len(constructs)
       /\ SubSeq(constructs', 1, Len(constructs)) = constructs
       /\ \A i \in (Len(constructs) + 1)..Len(constructs') :
             /\ PlaceIn(constructs', i) = PlaceOfStep
             /\ PlaceIn(constructs', i - 1) <= PlaceIn(constructs', i)
             /\ ReadsEarlierSteps(constructs', i)
       /\ pc' \in {"defaultVpc", "transitGateways", "role"} =>
             \A i \in DOMAIN constructs' : constructs'[i].kind \notin PerVpcKinds
       /\ pc' \in {"defaultVpc", "transitGateways"} =>
             \A i \in DOMAIN constructs' : constructs'[i].kind # "Role"
      ]_vars

\* A finished pass that looked up a foreign transit gateway, made the role,
\* and built a VPC down to a transit gateway route and a gateway endpoint.
C5_Witness ==
    /\ pc = "done"
    /\ ConstructsOf("Role") # {}
    /\ \E r \in ConstructsOf("Route") : constructs[r].dependsOn # <<>>
    /\ ConstructsOf("VPCEndpoint") # {}

(* ------------------------------- C6 ----------------------------------- *)
\* The identifier the route of the entry being read would be given.
CurrentRouteId ==
    RouteId(vpcs'[vpcIdx], vpcs'[vpcIdx].routeTables[idx],
            vpcs'[vpcIdx].routeTables[idx].routes[entryIdx])

\* C6: the pass stops at the first fatal error. The step that raises an error
\* makes no construct and publishes no parameter, and once an error is raised
\* it stays the error of the pass and no construct or parameter is ever added,
\* in that VPC or a later one. When the internet gateway check fails, no
\* gateway endpoint exists for its VPC and no route exists under the
\* identifier of the entry that failed (the identifier is that of one entry
\* when the route tables of the VPC have different names).
C6_AbortsOnFirstError ==
    [][/\ error' # NoError => constructs' = constructs
       /\ error # NoError => error' = error
       /\ (/\ error = NoError /\ error' = InternetGatewayError
            /\ Cardinality(RouteTableNamesOf(vpcIdx)) = Len(vpcs[vpcIdx].routeTables)) =>
             \A r \in DOMAIN constructs' :
                 constructs'[r].kind = "Route" => constructs'[r].id # CurrentRouteId
       /\ error' = InternetGatewayError =>
             /\ \A e \in DOMAIN constructs' :
                   constructs'[e].kind = "VPCEndpoint" => constructs'[e].vpcItem # vpcIdx'
             /\ \A c \in DOMAIN constructs' :
                   constructs'[c].kind \in PerVpcKinds => constructs'[c].vpcItem <= vpcIdx'
      ]_vars

\* The internet gateway check failed in a route table of the first VPC, after
\* its route table and a subnet were made, with a second VPC of this account
\* and region still to be built.
C6_Witness ==
    /\ Failed
    /\ error = InternetGatewayError
    /\ vpcIdx = 1
    /\ ConstructsOf("Subnet") # {}
    /\ Len(vpcs) = 2
    /\ InContext(2)

(* ------------------------------- C7 ----------------------------------- *)
\* A route with the identifier of entry k of route table t of VPC v exists.
RouteMadeFor(v, t, k) ==
    \E r \in ConstructsOf("Route") :
        /\ constructs[r].vpcItem = v
        /\ constructs[r].id = RouteId(vpcs[v], vpcs[v].routeTables[t],
                                      vpcs[v].routeTables[t].routes[k])

\* Entry k of route table t of VPC v asks for the s3 or the dynamodb gateway
\* endpoint, and while v is being built the list of that service holds the
\* route table.
RecordedForEndpoint(v, t, k) ==
    LET entry == vpcs[v].routeTables[t].routes[k]
        rt == MapGet(routeTableMap, vpcs[v].routeTables[t].name)
        Held(list) == \E n \in DOMAIN list : list[n] = rt
    IN  /\ NoRouteType(entry)
        /\ entry.target \in {"s3", "dynamodb"}
        /\ (v = vpcIdx /\ pc \in {"routes", "endpoints"}) =>
              IF entry.target = "s3" THEN Held(s3EndpointRouteTables)
              ELSE Held(dynamodbEndpointRouteTables)

\* C7 (as claimed; the code violates it): every route entry the route entry
\* step has taken in a VPC of this account and region has a route, or had its
\* route table recorded for the s3 or dynamodb gateway endpoint, or the pass
\* has failed: no entry is passed over in silence.
C7_NoRouteEntryIsSkipped ==
    \A v \in DOMAIN vpcs :
        InContext(v) =>
          \A t \in DOMAIN vpcs[v].routeTables :
            \A k \in DOMAIN vpcs[v].routeTables[t].routes :
                RouteMadeFor(v, t, k) \/ RecordedForEndpoint(v, t, k) \/ Failed

(* ------------------------------- C8 ----------------------------------- *)
\* The step reads one more attachment of the VPC the first loop is in.
ReadsAttachment ==
    /\ pc = "transitGateways"
    /\ Len(vpcs) > 0
    /\ Len(vpcs') = Len(vpcs)
    /\ Len(vpcs'[Len(vpcs)].transitGatewayAttachments)
          = Len(vpcs[Len(vpcs)].transitGatewayAttachments) + 1

\* The transit gateway named by the attachment the step reads.
NameRead ==
    LET atts == vpcs'[Len(vpcs)].transitGatewayAttachments
    IN  atts[Len(atts)].transitGateway.name

\* The lookups made for transit gateway name n.
LookupsOf(cs, n) ==
    {i \in DOMAIN cs :
        \/ /\ cs[i].kind = "ParameterLookup"
           /\ cs[i].parameterName = TransitGatewayParameterName(n)
        \/ /\ cs[i].kind = "ResourceShareLookup"
           /\ cs[i].id = pascalCase(<<n, "TransitGatewayShare">>)}

\* C8: the cache of transit gateway identifiers is written at most once per
\* name. An entry, once made, is never changed or removed; an attachment that
\* names a cached transit gateway makes no lookup construct and leaves the
\* cache and the list of owning accounts as they were, whatever owning
\* account it declares; and no name is looked up more than once.
C8_CacheWrittenOncePerName ==
    [][/\ \A n \in DOMAIN transitGatewayIds :
             /\ n \in DOMAIN transitGatewayIds'
             /\ transitGatewayIds'[n] = transitGatewayIds[n]
       /\ (ReadsAttachment /\ NameRead \in DOMAIN transitGatewayIds) =>
             /\ constructs' = constructs
             /\ transitGatewayIds' = transitGatewayIds
             /\ transitGatewayAccountIds' = transitGatewayAccountIds
       /\ \A n \in TransitGatewayNames : Cardinality(LookupsOf(constructs', n)) <= 1
      ]_vars

\* Two VPCs of this account and region each attach the same transit gateway,
\* declaring different owning accounts, and the first loop has read both.
C8_Witness ==
    /\ Len(vpcs) = 2
    /\ InContext(1) /\ InContext(2)
    /\ \E a \in DOMAIN vpcs[1].transitGatewayAttachments :
         \E b \in DOMAIN vpcs[2].transitGatewayAttachments :
            LET first == vpcs[1].transitGatewayAttachments[a].transitGateway
                second == vpcs[2].transitGatewayAttachments[b].transitGateway
            IN  /\ first.name = second.name
                /\ first.account # second.account
                /\ DOMAIN transitGatewayIds = {first.name}

(* ------------------------------- C9 ----------------------------------- *)
\* The owning accounts of the resource shares looked up.
ForeignOwnersLookedUp ==
    {constructs[i].owningAccountId : i \in ConstructsOf("ResourceShareLookup")}

\* The owning accounts declared by the attachments of the VPC definitions of
\* this account and region.
OwnersReferenced ==
    UNION {{AccountIdOf(vpcs[v].transitGatewayAttachments[a].transitGateway.account) :
              a \in DOMAIN vpcs[v].transitGatewayAttachments} :
           v \in {x \in DOMAIN vpcs : InContext(x)}}

\* C9: once the role step is over there is one cross account role if a
\* transit gateway of another account was looked up and none otherwise; the
\* role trusts each owning account of a looked up resource share once, and
\* no other account, never this account; it allows only
\* ec2:DescribeTransitGatewayAttachments. No role exists before the role
\* step, and none when every referenced transit gateway is owned by this
\* account or none is referenced.
C9_CrossAccountRole ==
    LET roles == ConstructsOf("Role")
        owners == ForeignOwnersLookedUp
    IN  /\ Cardinality(roles) <= 1
        /\ pc \in {"defaultVpc", "transitGateways", "role"} => roles = {}
        /\ pc \notin {"defaultVpc", "transitGateways", "role"} =>
              /\ roles # {} <=> owners # {}
              /\ OwnersReferenced \subseteq {ThisAccount} => roles = {}
        /\ \A r \in roles :
              LET principals == constructs[r].assumedBy
              IN  /\ {principals[k] : k \in DOMAIN principals} = owners
                  /\ Cardinality(owners) = Len(principals)
                  /\ \A k \in DOMAIN principals : principals[k] # ThisAccount
                  /\ constructs[r].actions = <<"ec2:DescribeTransitGatewayAttachments">>
                  /\ constructs[r].effect = "ALLOW"

\* The role made after two resource shares of two owning accounts were looked
\* up, in a configuration that also declares a transit gateway of this
\* account.
C9_Witness ==
    /\ \E r \in ConstructsOf("Role") : Len(constructs[r].assumedBy) = 2
    /\ Cardinality(ConstructsOf("ResourceShareLookup")) = 2
    /\ ThisAccount \in OwnersReferenced

(* ------------------------------- C10 ---------------------------------- *)
\* The attachments, of VPC definitions of this account and region, that name
\* transit gateway n: <<VPC, attachment>> positions in the configuration.
ReferencesTo(n) ==
    {p \in (DOMAIN vpcs) \X (1..Len(AttachmentNames)) :
        /\ InContext(p[1])
        /\ p[2] <= Len(vpcs[p[1]].transitGatewayAttachments)
        /\ vpcs[p[1]].transitGatewayAttachments[p[2]].transitGateway.name = n}

\* The owning account id declared by the first of the references refs.
FirstOwnerOf(refs) ==
    LET first == CHOOSE p \in refs :
                    \A q \in refs : p[1] < q[1] \/ (p[1] = q[1] /\ p[2] <= q[2])
    IN  AccountIdOf(vpcs[first[1]].transitGatewayAttachments[first[2]].transitGateway.account)

ParameterLookupsOf(n) ==
    {i \in ConstructsOf("ParameterLookup") :
        constructs[i].parameterName[4] = n}

ResourceShareLookupsOf(n) ==
    {i \in ConstructsOf("ResourceShareLookup") :
        constructs[i].id = pascalCase(<<n, "TransitGatewayShare">>)}

\* Transit gateway n, named by references refs, is resolved as the owner
\* declared where it is first seen asks, the resource share
\* of a foreign owner being looked up under shareName.
ResolvedAs(n, refs, shareName) ==
    LET owner == FirstOwnerOf(refs)
        shares == ResourceShareLookupsOf(n)
    IN  IF owner = ThisAccount
        THEN /\ transitGatewayIds[n] =
                   [source |-> "parameter",
                    parameterName |->
                        <<"accelerator", "network", "transitGateways", n, "id">>]
             /\ Cardinality(ParameterLookupsOf(n)) = 1
             /\ shares = {}
        ELSE /\ transitGatewayIds[n] =
                   [source |-> "resourceShareItem", resourceShareName |-> shareName,
                    owningAccountId |-> owner,
                    resourceShareItemType |-> "ec2:TransitGateway"]
             /\ Cardinality(shares) = 1
             /\ \A i \in shares :
                   /\ constructs[i].resourceShareName = shareName
                   /\ constructs[i].owningAccountId = owner
                   /\ constructs[i].resourceShareOwner = "OTHER-ACCOUNTS"
             /\ ParameterLookupsOf(n) = {}

\* C10 (as claimed; violated for the transit gateway named main): a transit
\* gateway first seen with this account as owner is cached as the value of
\* the parameter /accelerator/network/transitGateways/{name}/id with no
\* resource share lookup; one first seen with another owner is cached as the
\* ec2:TransitGateway item of the resource share named
\* {name}TransitGatewayShare of that owner, with no parameter lookup.
C10_ResolutionAsClaimed ==
    \A n \in TransitGatewayNames :
        LET refs == ReferencesTo(n)
        IN  /\ n \in DOMAIN transitGatewayIds <=> refs # {}
            /\ refs # {} => ResolvedAs(n, refs, <<n, "TransitGatewayShare">>)

\* C10 (amended): as above, with the resource share looked up under the
\* pascal case form of {name}TransitGatewayShare.
C10_ResolutionByOwner ==
    \A n \in TransitGatewayNames :
        LET refs == ReferencesTo(n)
        IN  /\ n \in DOMAIN transitGatewayIds <=> refs # {}
            /\ refs # {} =>
                  ResolvedAs(n, refs, pascalCase(<<n, "TransitGatewayShare">>))

\* A finished pass in which the transit gateway named main was first seen
\* with another account as owner and the one named Edge was looked up too.
C10_Witness ==
    /\ pc = "done"
    /\ ReferencesTo("main") # {}
    /\ FirstOwnerOf(ReferencesTo("main")) # ThisAccount
    /\ Cardinality(ReferencesTo("main")) = 2
    /\ ReferencesTo("Edge") # {}

(* ------------------------------- C11 ---------------------------------- *)
\* The position, in VPC definition v, of the last attachment that names
\* transit gateway n (0 if none does).
LastAttachmentTo(v, n) ==
    LET atts == vpcs[v].transitGatewayAttachments
        naming == {a \in DOMAIN atts : atts[a].transitGateway.name = n}
    IN  IF naming = {} THEN 0 ELSE CHOOSE a \in naming : \A b \in naming : b <= a

\* Every attachment declared in VPC definition v has its construct and its
\* parameter, and the attachment map of the VPC in progress holds, for every
\* transit gateway attached, the attachment declared last.
AttachmentsMadeAndLastKept(v) ==
    LET atts == vpcs[v].transitGatewayAttachments
    IN  /\ \A a \in DOMAIN atts :
              OnceAndPublished("TransitGatewayAttachment", v, atts[a].name,
                               VpcPath(v) \o <<"transitGatewayAttachment",
                                               atts[a].name, "id">>)
        /\ (v = vpcIdx /\ pc \in {"routes", "endpoints"}) =>
              /\ DOMAIN transitGatewayAttachments = AttachedTransitGatewaysOf(v)
              /\ \A n \in DOMAIN transitGatewayAttachments :
                    transitGatewayAttachments[n]
                      \in Made("TransitGatewayAttachment", v,
                               atts[LastAttachmentTo(v, n)].name)

\* Route r, just made for the route entry being read, goes to the cached
\* transit gateway of the entry and depends on the attachment of the VPC that
\* was declared last for that transit gateway, and on nothing else.
RouteThroughLastAttachment(r) ==
    LET entry == vpcs'[vpcIdx].routeTables[idx].routes[entryIdx]
        atts == vpcs[vpcIdx].transitGatewayAttachments
        last == LastAttachmentTo(vpcIdx, entry.target)
    IN  /\ last # 0
        /\ r.transitGatewayId = transitGatewayIds[entry.target]
        /\ Len(r.dependsOn) = 1
        /\ constructs[r.dependsOn[1]].kind = "TransitGatewayAttachment"
        /\ constructs[r.dependsOn[1]].vpcItem = vpcIdx
        /\ constructs[r.dependsOn[1]].name = atts[last].name

\* C11: the attachment map of a VPC is keyed by transit gateway name. Once the
\* attachment step of a VPC is over, every attachment declared in it has been
\* made and published, also those that name the same transit gateway, and the
\* map holds one attachment per transit gateway attached: the one declared
\* last. Every route made for a transitGateway route entry has the cached
\* identifier of the targeted transit gateway and depends on that one
\* attachment; no other route depends on an attachment.
C11_LastAttachmentPerTransitGateway ==
    [][/\ \A i \in (Len(constructs) + 1)..Len(constructs') :
             constructs'[i].kind = "Route" =>
               LET entry == vpcs'[vpcIdx].routeTables[idx].routes[entryIdx]
               IN  IF entry.type = "transitGateway"
                   THEN RouteThroughLastAttachment(constructs'[i])
                   ELSE constructs'[i].dependsOn = <<>>
       /\ (\A v \in DOMAIN vpcs :
              (InContext(v) /\ PastAttachments(v)) => AttachmentsMadeAndLastKept(v))'
      ]_vars

\* A route that depends on the second of two attachments of its VPC that name
\* the same transit gateway.
C11_Witness ==
    \E r \in ConstructsOf("Route") :
        LET atts == vpcs[constructs[r].vpcItem].transitGatewayAttachments
        IN  /\ Len(atts) = 2
            /\ atts[1].transitGateway.name = atts[2].transitGateway.name
            /\ constructs[r].dependsOn # <<>>
            /\ constructs[constructs[r].dependsOn[1]].name = atts[2].name

(* ------------------------------- C12 ---------------------------------- *)
\* The route tables of the VPC in progress that the entries read so far ask
\* to bind to the gateway endpoint of a service, as the route table step
\* registered them under their names.
RouteTablesAskingFor(service) ==
    {MapGet(routeTableMap, vpcs[vpcIdx].routeTables[t].name) :
        t \in {u \in DOMAIN vpcs[vpcIdx].routeTables :
                 \E e \in DOMAIN vpcs[vpcIdx].routeTables[u].routes :
                     /\ NoRouteType(vpcs[vpcIdx].routeTables[u].routes[e])
                     /\ vpcs[vpcIdx].routeTables[u].routes[e].target = service}}

\* list holds every element of set once and nothing else.
HoldsOnce(list, set) ==
    /\ {list[n] : n \in DOMAIN list} = set
    /\ \A m, n \in DOMAIN list : list[m] = list[n] => m = n

\* C12: at every point of the route entry step of a VPC, and in the gateway
\* endpoint step that follows it, the s3 list and the dynamodb list hold no
\* route table twice: a route table is in the list of a service exactly once
\* when one or more of the entries read so far target the service, and is not
\* in it when none does. No step takes a route table out of a list or adds
\* more than one.
C12_EndpointRouteTablesHeldOnce ==
    [][/\ (pc \in {"routes", "endpoints"} =>
              /\ HoldsOnce(s3EndpointRouteTables, RouteTablesAskingFor("s3"))
              /\ HoldsOnce(dynamodbEndpointRouteTables,
                           RouteTablesAskingFor("dynamodb")))'
       /\ (pc = "routes" /\ pc' \in {"routes", "endpoints"}) =>
              /\ s3EndpointRouteTables'
                    \in {s3EndpointRouteTables,
                         Append(s3EndpointRouteTables, routeTable)}
              /\ dynamodbEndpointRouteTables'
                    \in {dynamodbEndpointRouteTables,
                         Append(dynamodbEndpointRouteTables, routeTable)}
      ]_vars

\* Two entries of one route table that target s3 have been read, and the s3
\* list holds this route table alone.
C12_Witness ==
    /\ pc = "routes"
    /\ entryIdx = 3
    /\ \A e \in 1..2 :
          /\ NoRouteType(vpcs[vpcIdx].routeTables[idx].routes[e])
          /\ vpcs[vpcIdx].routeTables[idx].routes[e].target = "s3"
    /\ s3EndpointRouteTables = <<routeTable>>

(* ------------------------------- C13 ---------------------------------- *)
\* The accumulated list of a gateway endpoint service.
EndpointRouteTablesOf(service) ==
    IF service = "s3" THEN s3EndpointRouteTables ELSE dynamodbEndpointRouteTables

\* The gateway endpoints the step makes.
NewGatewayEndpoints ==
    {constructs'[i] : i \in {j \in (Len(constructs) + 1)..Len(constructs') :
                                constructs'[j].kind = "VPCEndpoint"}}

\* C13 (as claimed; the code violates it): a step of the gateway endpoint
\* step that reads the declaration of service s3 or dynamodb makes a gateway
\* endpoint exactly when the accumulated list of the service holds a route
\* table, that is when a route table of the VPC has a route entry targeting
\* the service; it then makes one, of that service, in the VPC, bound to
\* exactly the route tables that asked for the service.
C13_EndpointOnlyWhenRequested ==
    [][pc = "endpoints" /\ idx' = idx + 1 =>
          LET s == vpcs'[vpcIdx].gatewayEndpoints[idx]
              requested == s \in {"s3", "dynamodb"}
                           /\ RouteTablesAskingFor(s) # {}
          IN  /\ requested =>
                    /\ Cardinality(NewGatewayEndpoints) = 1
                    /\ \A e \in NewGatewayEndpoints :
                          /\ e.serviceName = s
                          /\ e.vpcId = vpc
                          /\ HoldsOnce(e.routeTableIds, RouteTablesAskingFor(s))
              /\ ~requested => NewGatewayEndpoints = {}
      ]_vars

\* What the code does: the gateway endpoint is made for every declaration of
\* s3 or dynamodb, bound to the accumulated list whether or not it holds a
\* route table.
C13_EndpointWheneverDeclared ==
    [][pc = "endpoints" /\ idx' = idx + 1 =>
          LET s == vpcs'[vpcIdx].gatewayEndpoints[idx]
          IN  IF s \in {"s3", "dynamodb"}
              THEN /\ Cardinality(NewGatewayEndpoints) = 1
                   /\ \A e \in NewGatewayEndpoints :
                         /\ e.serviceName = s
                         /\ e.vpcId = vpc
                         /\ e.routeTableIds = EndpointRouteTablesOf(s)
                         /\ HoldsOnce(e.routeTableIds, RouteTablesAskingFor(s))
              ELSE NewGatewayEndpoints = {}
      ]_vars

(* ------------------------------- C14 ---------------------------------- *)
\* The constructs the step makes, by position.
NewConstructs == (Len(constructs) + 1)..Len(constructs')

\* The constructs the step makes of a kind under scope v.
NewUnder(v, kind) ==
    {i \in NewConstructs : constructs'[i].kind = kind /\ constructs'[i].scope = v}

\* The step that builds VPC v makes, under v, one internet gateway and one
\* attachment of it to v, and v exposes the gateway's identifier.
BuiltWithInternetGateway(v) ==
    /\ Cardinality(NewUnder(v, "InternetGateway")) = 1
    /\ Cardinality(NewUnder(v, "VPCGatewayAttachment")) = 1
    /\ \A g \in NewUnder(v, "InternetGateway") :
          /\ constructs'[v].internetGatewayId = g
          /\ \A a \in NewUnder(v, "VPCGatewayAttachment") :
                /\ constructs'[a].internetGatewayId = g
                /\ constructs'[a].vpcId = v

\* The step that builds VPC v makes neither, and v exposes no identifier.
BuiltWithoutInternetGateway(v) ==
    /\ NewUnder(v, "InternetGateway") = {}
    /\ NewUnder(v, "VPCGatewayAttachment") = {}
    /\ constructs'[v].internetGatewayId = Undefined

\* C14: the step that builds a VPC makes an internet gateway and its
\* attachment to the VPC exactly when the definition sets internetGateway, and
\* the VPC then exposes that gateway's identifier, otherwise none; no other
\* step makes an internet gateway or such an attachment. A step that reads a
\* route entry of type 'internetGateway' in a route table of a VPC that has
\* the gateway does not fail and makes exactly one construct: a route under
\* the route table in progress whose gateway target is the internet gateway of
\* the VPC in progress and which has no other target.
C14_InternetGatewayWhenSet ==
    [][/\ \A v \in NewConstructs :
             constructs'[v].kind = "Vpc" =>
               IF vpcs'[constructs'[v].vpcItem].internetGateway
               THEN BuiltWithInternetGateway(v)
               ELSE BuiltWithoutInternetGateway(v)
       /\ \A i \in NewConstructs :
             constructs'[i].kind \in {"InternetGateway", "VPCGatewayAttachment"} =>
               /\ constructs'[i].scope \in NewConstructs
               /\ constructs'[constructs'[i].scope].kind = "Vpc"
       /\ (/\ pc = "routes"
           /\ vpcs' # vpcs
           /\ vpcs'[vpcIdx].routeTables[idx].routes[entryIdx].type = "internetGateway"
           /\ vpcs[vpcIdx].internetGateway) =>
             /\ entryIdx' = entryIdx + 1
             /\ error' = NoError
             /\ pc' = "routes"
             /\ Len(constructs') = Len(constructs) + 1
             /\ \A r \in NewConstructs :
                   /\ constructs'[r].kind = "Route"
                   /\ constructs'[r].scope = routeTable
                   /\ constructs'[r].routeTableId = routeTable
                   /\ constructs'[r].gatewayId \in ConstructsOf("InternetGateway")
                   /\ constructs[constructs'[r].gatewayId].scope = vpc
                   /\ constructs'[r].natGatewayId = Undefined
                   /\ constructs'[r].transitGatewayId = NoTransitGatewayId
       /\ (/\ pc = "routes"
           /\ pc' = "failed"
           /\ error' = InternetGatewayError)
             => ~vpcs[vpcIdx].internetGateway
      ]_vars

\* A route to the internet gateway of a VPC built with internetGateway set.
C14_Witness ==
    \E r \in ConstructsOf("Route") :
        /\ vpcs[constructs[r].vpcItem].internetGateway
        /\ constructs[r].gatewayId \in ConstructsOf("InternetGateway")
        /\ constructs[constructs[r].gatewayId].scope = constructs[constructs[r].scope].vpc

(* ------------------------------- C15 ---------------------------------- *)
\* The constructs registered directly under the stack under an identifier
\* that the constructor writes, those of the given kinds left aside.
UnderStackExcept(kinds) ==
    {i \in DOMAIN constructs :
        /\ constructs[i].scope = Stack
        /\ constructs[i].id # <<>>
        /\ constructs[i].kind \notin kinds}

\* No two of them have the same identifier, in a configuration whose route
\* table, subnet, NAT gateway and attachment names are distinct within each
\* VPC (VPC names are distinct in every configuration of the model).
DistinctIdsExcept(kinds) ==
    (\A v \in DOMAIN vpcs : DistinctNames(v)) =>
        \A i, j \in UnderStackExcept(kinds) :
            constructs[i].id = constructs[j].id => i = j

\* C15 (as claimed; the code violates it): in a configuration with distinct
\* VPC names and distinct route table, subnet, NAT gateway and attachment
\* names within each VPC, the identifiers of the constructs registered
\* directly under the stack are pairwise distinct; in particular the
\* attachments of two VPCs that have the same name do not get the same
\* identifier.
C15_StackIdsDistinct == DistinctIdsExcept({})

\* What the code does: with the transit gateway attachments left aside the
\* identifiers under the stack are pairwise distinct.
C15_IdsDistinctButAttachments == DistinctIdsExcept({"TransitGatewayAttachment"})

(* ------------------------------- C16 ---------------------------------- *)
\* The attachment step is about to read an attachment of the VPC in progress.
AtAttachmentLookup ==
    pc = "attachments" /\ idx <= Len(vpcs[vpcIdx].transitGatewayAttachments)

\* The route entry step is about to look up a route table of the VPC in
\* progress.
AtRouteTableLookup ==
    pc = "routes" /\ entryIdx = 0 /\ idx <= Len(vpcs[vpcIdx].routeTables)

\* C16: when the attachment step reads an attachment, the transit gateway it
\* names is in the identifier cache, and the step does not fail with
\* 'Transit Gateway <name> not found'; when the route entry step looks up a
\* route table, the route table map holds its name, and the step does not
\* fail. In no state is the error 'Route Table <name> not found'.
C16_LookupsThatNeverFail ==
    [][/\ AtAttachmentLookup =>
             /\ MapHas(transitGatewayIds,
                       vpcs[vpcIdx].transitGatewayAttachments[idx].transitGateway.name)
             /\ pc' = "failed" => error'[1] # "Transit Gateway"
       /\ AtRouteTableLookup =>
             /\ MapHas(routeTableMap, vpcs[vpcIdx].routeTables[idx].name)
             /\ pc' = "routes"
             /\ error' = NoError
       /\ error' # NoError => error'[1] # "Route Table"
      ]_vars

\* The VPC in progress has an attachment, made after the lookup of its
\* transit gateway, and the route entry step has looked up a route table.
C16_Witness ==
    /\ pc = "routes"
    /\ entryIdx >= 1
    /\ routeTable \in ConstructsOf("RouteTable")
    /\ \E a \in ConstructsOf("TransitGatewayAttachment") : constructs[a].vpcItem = vpcIdx

(* ------------------------------- C17 ---------------------------------- *)
\* The values of a list, as a set.
Range(list) == {list[n] : n \in DOMAIN list}

\* The constructs that construct c of a VPC was given: its VPC, route table,
\* subnets, NAT gateway, internet gateway, attachment, route tables.
ReferencesOf(c) ==
    CASE c.kind = "RouteTable" -> {c.vpc}
      [] c.kind = "Subnet" -> {c.routeTable, c.vpc}
      [] c.kind = "NatGateway" -> {c.subnet}
      [] c.kind = "TransitGatewayAttachment" -> Range(c.subnetIds) \cup {c.vpcId}
      [] c.kind = "Route" ->
            ({c.scope, c.natGatewayId, c.gatewayId} \ {Undefined}) \cup Range(c.dependsOn)
      [] c.kind = "VPCEndpoint" -> {c.scope} \cup Range(c.routeTableIds)
      [] OTHER -> {}

\* What the maps and lists of the VPC in progress hold.
HeldForVpc ==
    Range(routeTableMap) \cup Range(subnetMap) \cup Range(natGatewayMap)
    \cup Range(transitGatewayAttachments) \cup Range(s3EndpointRouteTables)
    \cup Range(dynamodbEndpointRouteTables) \cup ({vpc, routeTable} \ {Undefined})

\* C17: the step that builds a VPC leaves the route table, subnet, NAT
\* gateway and attachment maps and the two gateway endpoint lists empty; in
\* every step of a VPC all that they hold was made for that VPC, and every
\* construct the step makes for a VPC is given constructs of that VPC only.
\* The transit gateway identifiers are not written once the first pass is
\* over. A step that reads a route entry of type 'transitGateway' whose target
\* is in the identifier cache while the VPC in progress declares no
\* attachment to it fails with 'Transit Gateway Attachment <target> not
\* found' and makes nothing.
C17_ResolutionStaysInVpc ==
    [][/\ (\E v \in NewConstructs : constructs'[v].kind = "Vpc") =>
             /\ routeTableMap' = EmptyMap
             /\ subnetMap' = EmptyMap
             /\ natGatewayMap' = EmptyMap
             /\ transitGatewayAttachments' = EmptyMap
             /\ s3EndpointRouteTables' = <<>>
             /\ dynamodbEndpointRouteTables' = <<>>
       /\ (pc \in {"routeTables", "subnets", "natGateways", "attachments",
                   "routes", "endpoints"} =>
              \A r \in HeldForVpc : constructs[r].vpcItem = vpcIdx)'
       /\ \A i \in NewConstructs :
             constructs'[i].kind \in PerVpcKinds =>
               /\ constructs'[i].vpcItem = vpcIdx
               /\ \A r \in ReferencesOf(constructs'[i]) :
                     /\ r \in DOMAIN constructs
                     /\ constructs[r].vpcItem = vpcIdx
       /\ pc \notin {"defaultVpc", "transitGateways"} =>
             transitGatewayIds' = transitGatewayIds
       /\ (/\ pc = "routes"
           /\ vpcs' # vpcs
           /\ vpcs'[vpcIdx].routeTables[idx].routes[entryIdx].type = "transitGateway"
           /\ MapHas(transitGatewayIds,
                     vpcs'[vpcIdx].routeTables[idx].routes[entryIdx].target)
           /\ vpcs'[vpcIdx].routeTables[idx].routes[entryIdx].target
                 \notin AttachedTransitGatewaysOf(vpcIdx)) =>
             /\ pc' = "failed"
             /\ error' = <<"Transit Gateway Attachment",
                           vpcs'[vpcIdx].routeTables[idx].routes[entryIdx].target,
                           "not found">>
             /\ constructs' = constructs
      ]_vars

\* The second VPC has failed on a transit gateway route for want of an
\* attachment, while the first VPC has an attachment to that transit gateway.
C17_Witness ==
    /\ Failed
    /\ vpcIdx = 2
    /\ error[1] = "Transit Gateway Attachment"
    /\ \E a \in ConstructsOf("TransitGatewayAttachment") :
          /\ constructs[a].vpcItem = 1
          /\ vpcs[1].transitGatewayAttachments[1].transitGateway.name = error[2]
    /\ AttachedTransitGatewaysOf(2) = {}
====
